---- MODULE Spec2Model ----
(***************************************************************************)
(* Statement reporting engine of union-expense (src/pages/ReportsPage.tsx, *)
(* the jsPDF variant, lines 736-1828).                                     *)
(*                                                                         *)
(* The specifications of the module:                                       *)
(*   SpecRender - the fetched rows are drawn from a bounded set; the       *)
(*                actions are the five display toggles and the three       *)
(*                sinks (on-screen table, CSV download, PDF build).        *)
(*   Spec       - the filter state, the divisions list, and the            *)
(*                "report" query with its cache of reads keyed by          *)
(*                queryKey, over a fixed journal.                          *)
(*   SpecMalformed - SpecRender's actions over rows with an amount that    *)
(*                Number() does not parse.                                 *)
(*   SpecPost   - the journal as the app's writers fill it, and the report *)
(*                over it.                                                 *)
(*   SpecUrls   - the object URLs of the CSV, the preview and the opened   *)
(*                PDF, up to unmount.                                      *)
(*   SpecDoc    - buildDoc with its logo block.                            *)
(*   SpecSided  - the two-sided alignment of the specification.            *)
(*   SpecClip   - clipTextLines on the Notes cell of the PDF.              *)
(*   SpecAreas  - Spec's area and division pickers with a divisions list   *)
(*                that is read again.                                      *)
(*   SpecPreview - handlePreview step by step, up to unmount.              *)
(*   SpecJournal - the person/group tag JournalPage writes.                *)
(*   SpecTagged - the Tagged To cell of the table and the PDF.             *)
(*   SpecAuth   - AuthProvider (src/auth.tsx) and the route guard of       *)
(*                src/App.tsx.                                             *)
(*                                                                         *)
(* Money is counted in paise (1/100 rupee), so every well-formed amount    *)
(* is an integer and a 2-decimal rendering is a (whole, frac) split.       *)
(***************************************************************************)
EXTENDS Integers, Sequences, FiniteSets, TLC

VARIABLES
    rows,               \* data of useQuery(["report", ...]): fetched rows, fetch order
    includeNotes,       \* useState toggles, ReportsPage.tsx:948-952
    includeArea,
    includeTagged,
    includeKind,
    includeCumulative,
    emitted,            \* what the last operation produced: table render, CSV or PDF
    from, to, kind,     \* filter state, ReportsPage.tsx:935-944
    divisionIds, personIds, groupIds, categoryIds, areaValues,
    divisions,          \* data of useQuery(["divisions"]): undefined until loaded
    cache,              \* the query cache: queryKey -> state of that query
    reads,              \* journal reads sent to the store and not yet answered
    changes,            \* number of filter edits so far (bounded)
    objectUrls,         \* object URLs created and not revoked
    urlCount,           \* object URLs created so far (bounded)
    previewUrl,         \* useState previewUrl: 0 is null, ReportsPage.tsx:1530
    mounted,            \* the page is mounted
    previewRuns,        \* handlePreview calls awaiting buildDoc, and the
                        \* setPreviewUrl not yet rendered
    auth                \* AuthProvider's state, the auth store and the route

filterVars == <<from, to, kind, divisionIds, personIds, groupIds, categoryIds, areaValues>>
queryVars == <<divisions, cache, reads, changes>>
urlVars == <<objectUrls, urlCount, previewUrl, mounted, previewRuns>>
authVars == <<auth>>

renderVars == <<rows, includeNotes, includeArea, includeTagged, includeKind,
                includeCumulative, emitted>>

-----------------------------------------------------------------------------
(* Bounds and input domains of SpecRender *)

MaxRows == 2

Dates == {3, 5}                       \* ts, as day numbers
Kinds == {"INCOMING", "OUTGOING"}
NULL == "<null>"                      \* a null join / null column
\* division.area as the join returns it: null (no division, or a division
\* without area), or the free-text label, here one typed with a leading space
Areas == {NULL, " North"}
\* amount as the store returns it: a JSON number, in paise
RawAmounts == {[ok |-> TRUE, paise |-> 150], [ok |-> TRUE, paise |-> 275]}

RowDomain == [ts : Dates, kind : Kinds, amount : RawAmounts, area : Areas]

\* .order("ts", desc).order("created_at", desc): the fetched list is
\* non-increasing in ts; equal dates come newest-created first.
FetchOrdered(s) == \A i \in 1..(Len(s) - 1) : s[i].ts >= s[i + 1].ts

FetchResults ==
    UNION {{s \in [1..n -> RowDomain] : FetchOrdered(s)} : n \in 0..MaxRows}

-----------------------------------------------------------------------------
(* JavaScript numbers: a finite value (paise) or NaN *)

NaN == [nan |-> TRUE]
Num(v) == [nan |-> FALSE, v |-> v]

\* Number(r.amount)
Number(a) == IF a.ok THEN Num(a.paise) ELSE NaN

\* x || 0 on a number: NaN and 0 are falsy
OrZero(n) == IF n.nan THEN 0 ELSE n.v

\* s + x inside reduce
JsAdd(a, b) == IF a.nan \/ b.nan THEN NaN ELSE Num(a.v + b.v)
JsSub(a, b) == IF a.nan \/ b.nan THEN NaN ELSE Num(a.v - b.v)

-----------------------------------------------------------------------------
(* Number formatting.  A rendered amount is its sign, whole rupees and     *)
(* two-digit paise, tagged with the formatter that produced it.            *)

Abs(n) == IF n < 0 THEN -n ELSE n

Fixed2(style, n) ==
    IF n.nan THEN [style |-> style, text |-> "NaN"]
    ELSE [style |-> style, neg |-> n.v < 0,
          whole |-> Abs(n.v) \div 100, frac |-> Abs(n.v) % 100]

inr(n) == Fixed2("inr", n)                 \* Intl currency INR, lib/format
formatAmount(n) == Fixed2("nfINR", n)      \* Intl en-IN, 2 fraction digits
toFixed2(n) == Fixed2("toFixed", n)        \* Number.prototype.toFixed(2)

Blank == [style |-> "blank"]               \* the empty string in a cell

\* the numeric content of a rendered cell, formatter aside
Shown(cell) == [f \in (DOMAIN cell) \ {"style"} |-> cell[f]]

-----------------------------------------------------------------------------
(* localeCompare(.., undefined, {sensitivity: "accent"}) on the strings    *)
(* that occur as area keys.  Root collation: the empty string first, then  *)
(* white space, then punctuation (the em dash), then letters.              *)

EmDash == "<em dash>"                 \* U+2014, the placeholder glyph

CollationRank(s) ==
    CASE s = "" -> 0
      [] s = " North" -> 1
      [] s = EmDash -> 2
      [] OTHER -> 3                   \* a label that starts with a letter

\* Array.prototype.sort with a comparator on .key: stable, ascending
RECURSIVE InsertByKey(_, _)
InsertByKey(x, s) ==
    IF s = <<>> THEN <<x>>
    ELSE IF CollationRank(s[Len(s)].key) <= CollationRank(x.key)
         THEN Append(s, x)
         ELSE Append(InsertByKey(x, SubSeq(s, 1, Len(s) - 1)), s[Len(s)])

RECURSIVE SortFrom(_, _, _)
SortFrom(s, i, acc) ==
    IF i > Len(s) THEN acc ELSE SortFrom(s, i + 1, InsertByKey(s[i], acc))

StableSortByKey(s) == SortFrom(s, 1, <<>>)

-----------------------------------------------------------------------------
(* Row materialisation and the three sinks *)

\* (..division..)?.area ?? "<em dash>"        ReportsPage.tsx:1586, 1264
AreaOrDash(r) == IF r.area = NULL THEN EmDash ELSE r.area
\* (..division..)?.area ?? ""  and the comparator's  a.area || ""   :1078, 1088
AreaOrEmpty(r) == IF r.area = NULL THEN "" ELSE r.area

\* const amt = Number(r.amount) || 0          ReportsPage.tsx:1584, 1265
Amt(r) == OrZero(Number(r.amount))

\* running += (incomingNum || 0) - (expenseNum || 0), in list order
RECURSIVE RunningFrom(_, _, _, _)
RunningFrom(list, i, running, acc) ==
    IF i > Len(list) THEN acc
    ELSE LET next == running + list[i].incomingNum - list[i].expenseNum
         IN  RunningFrom(list, i + 1, next,
                         Append(acc, [list[i] EXCEPT !.runningNum = next,
                                                     !.hasRunning = TRUE]))

\* faulty variant: the accumulator is reset for every row
WithRunning_NoCarry(list) ==
    [i \in 1..Len(list) |->
        [list[i] EXCEPT !.runningNum = list[i].incomingNum - list[i].expenseNum,
                        !.hasRunning = TRUE]]

WithRunning(list) == RunningFrom(list, 1, 0, <<>>)

\* the optional area re-sort, then the optional running pass
ArrangeRows(list, byArea, cumulative) ==
    LET sorted == IF byArea THEN StableSortByKey(list) ELSE list
    IN  IF cumulative THEN WithRunning(sorted) ELSE sorted

\* uiRows useMemo                              ReportsPage.tsx:1582-1617
UiList(rs) ==
    [i \in 1..Len(rs) |->
        [src |-> i, date |-> rs[i].ts, kind |-> rs[i].kind,
         key |-> AreaOrDash(rs[i]),
         incomingNum |-> IF rs[i].kind = "INCOMING" THEN Amt(rs[i]) ELSE 0,
         expenseNum |-> IF rs[i].kind = "OUTGOING" THEN Amt(rs[i]) ELSE 0,
         runningNum |-> 0, hasRunning |-> FALSE]]

uiRows(rs, byArea, cumulative) == ArrangeRows(UiList(rs), byArea, cumulative)

\* buildDoc bodyRaw                            ReportsPage.tsx:1262-1295
PdfList(rs) ==
    [i \in 1..Len(rs) |->
        [src |-> i, date |-> rs[i].ts, kind |-> rs[i].kind,
         key |-> AreaOrDash(rs[i]),
         incomingNum |-> IF rs[i].kind = "INCOMING" THEN Amt(rs[i]) ELSE 0,
         expenseNum |-> IF rs[i].kind = "OUTGOING" THEN Amt(rs[i]) ELSE 0,
         runningNum |-> 0, hasRunning |-> FALSE]]

bodyRaw(rs, byArea, cumulative) == ArrangeRows(PdfList(rs), byArea, cumulative)

\* downloadCSV list                            ReportsPage.tsx:1074-1108
\* incomingNum is Number(r.amount) without "|| 0"; the running line and the
\* cell test coerce it, so the numeric field is kept coerced here.
CsvList(rs) ==
    [i \in 1..Len(rs) |->
        [src |-> i, date |-> rs[i].ts, kind |-> rs[i].kind,
         key |-> AreaOrEmpty(rs[i]),
         incomingNum |-> IF rs[i].kind = "INCOMING" THEN OrZero(Number(rs[i].amount)) ELSE 0,
         expenseNum |-> IF rs[i].kind = "OUTGOING" THEN OrZero(Number(rs[i].amount)) ELSE 0,
         runningNum |-> 0, hasRunning |-> FALSE]]

\* the running accumulator always runs in downloadCSV; the toggle only
\* decides whether the Running field is written (line 1106)
csvList(rs, byArea) == ArrangeRows(CsvList(rs), byArea, TRUE)

-----------------------------------------------------------------------------
(* Totals: useMemo over [rows]                  ReportsPage.tsx:1065-1069 *)

\* rows.filter(kind === k).reduce((s, r) => s + Number(r.amount), 0)
RECURSIVE SumOfKind(_, _, _, _)
SumOfKind(rs, k, i, s) ==
    IF i > Len(rs) THEN s
    ELSE SumOfKind(rs, k, i + 1,
                   IF rs[i].kind = k THEN JsAdd(s, Number(rs[i].amount)) ELSE s)

\* faulty variant: the kind filter is dropped from the expense sum
totals_OutOverAll(rs) ==
    LET inc == SumOfKind(rs, "INCOMING", 1, Num(0))
        out == JsAdd(inc, SumOfKind(rs, "OUTGOING", 1, Num(0)))
    IN  [inc |-> inc, out |-> out, net |-> JsSub(inc, out), count |-> Len(rs)]

totals(rs) ==
    LET inc == SumOfKind(rs, "INCOMING", 1, Num(0))
        out == SumOfKind(rs, "OUTGOING", 1, Num(0))
    IN  [inc |-> inc, out |-> out, net |-> JsSub(inc, out), count |-> Len(rs)]

-----------------------------------------------------------------------------
(* Headers *)

Opt(flag, h) == IF flag THEN <<h>> ELSE <<>>

\* visibleHeaders (UI)                          ReportsPage.tsx:1557-1565
visibleHeaders(k, a, t, c, n) ==
    <<"Date">> \o Opt(k, "Kind") \o <<"Division">> \o Opt(a, "Area")
    \o Opt(t, "Tagged To") \o <<"Category", "Incoming", "Expense">>
    \o Opt(c, "Running") \o Opt(n, "Notes")

\* headers (PDF)                                ReportsPage.tsx:1301-1309
pdfHeaders(k, a, t, c, n) ==
    <<"Date">> \o Opt(k, "Kind") \o <<"Division">> \o Opt(a, "Area")
    \o Opt(t, "Tagged To") \o <<"Category", "Incoming", "Expense">>
    \o Opt(c, "Running") \o Opt(n, "Notes")

\* Papa.unparse(csvRows, {header: true}): the fields are the keys of the first
\* row object in insertion order; no rows, no header line.
\*                                              ReportsPage.tsx:1094-1109
csvHeaders(rs, c) ==
    IF Len(rs) = 0 THEN <<>>
    ELSE <<"Date", "Kind", "Division", "Area", "Person", "Group", "Category",
           "Incoming", "Expense", "Notes">> \o Opt(c, "Running")

\* headers.indexOf(h), counted from 1; 0 when absent
IndexOf(hs, h) ==
    IF \E i \in 1..Len(hs) : hs[i] = h
    THEN CHOOSE i \in 1..Len(hs) : hs[i] = h /\ \A j \in 1..(i - 1) : hs[j] # h
    ELSE 0

-----------------------------------------------------------------------------
(* What each sink shows.  A body row keeps the index of the fetched row it *)
(* came from (src) next to its date and its three money cells.             *)

\* <tbody> rows                                 ReportsPage.tsx:1718-1737
UiBody(rs, a, c) ==
    LET list == uiRows(rs, a, c)
    IN  [i \in 1..Len(list) |->
            [src |-> list[i].src, date |-> list[i].date,
             incoming |-> IF list[i].kind = "INCOMING"
                          THEN inr(Num(list[i].incomingNum)) ELSE Blank,
             expense |-> IF list[i].kind = "OUTGOING"
                         THEN inr(Num(list[i].expenseNum)) ELSE Blank,
             running |-> IF c /\ list[i].hasRunning
                         THEN inr(Num(list[i].runningNum)) ELSE Blank]]

\* the on-screen totals row, column j of hs (1-based)
\*                                              ReportsPage.tsx:1742-1792
UiTotalsCell(hs, j, c, tot) ==
    LET incomingIdx == IndexOf(hs, "Incoming")
        runningIdx == IndexOf(hs, "Running")
        expenseIdx == IndexOf(hs, "Expense")
        balance == JsSub(tot.inc, tot.out)
    IN  IF j < incomingIdx THEN [style |-> "label"]
        ELSE IF j = incomingIdx THEN inr(tot.inc)
        ELSE IF j = incomingIdx + 1 THEN inr(tot.out)
        ELSE IF c /\ j = incomingIdx + 2 THEN Blank
        ELSE IF c /\ j = runningIdx THEN inr(balance)
        ELSE IF ~c /\ j = expenseIdx THEN inr(balance)
        ELSE Blank

UiRender(rs, k, a, t, c, n) ==
    LET hs == visibleHeaders(k, a, t, c, n)
        tot == totals(rs)
        body == UiBody(rs, a, c)
    IN  [sink |-> "ui", headers |-> hs, body |-> body,
         \* totals strip                         ReportsPage.tsx:1681-1692
         summary |-> [inc |-> inr(tot.inc), out |-> inr(tot.out), net |-> inr(tot.net)],
         totalsRow |-> IF Len(body) > 0
                       THEN [j \in 1..Len(hs) |-> UiTotalsCell(hs, j, c, tot)]
                       ELSE <<>>,
         balanceRow |-> <<>>]

\* body of the PDF table                        ReportsPage.tsx:1363-1373
PdfBody(rs, a, c) ==
    LET list == bodyRaw(rs, a, c)
    IN  [i \in 1..Len(list) |->
            [src |-> list[i].src, date |-> list[i].date,
             incoming |-> IF list[i].kind = "INCOMING"
                          THEN formatAmount(Num(list[i].incomingNum)) ELSE Blank,
             expense |-> IF list[i].kind = "OUTGOING"
                         THEN formatAmount(Num(list[i].expenseNum)) ELSE Blank,
             running |-> IF c /\ list[i].hasRunning
                         THEN formatAmount(Num(list[i].runningNum)) ELSE Blank]]

\* totalsRow                                    ReportsPage.tsx:1443-1450
PdfTotalsCell(h, tot) ==
    IF h = "Date" THEN [style |-> "label"]
    ELSE IF h = "Incoming" THEN formatAmount(tot.inc)
    ELSE IF h = "Expense" THEN formatAmount(tot.out)
    ELSE Blank

\* faulty variant: the balance row prints the expense total
PdfBalanceCell_Out(hs, i, c, tot) ==
    LET runningIdx == IndexOf(hs, "Running")
        expenseIdx == IndexOf(hs, "Expense")
    IN  IF c /\ runningIdx >= 1 /\ i = runningIdx THEN formatAmount(tot.out)
        ELSE IF ~c /\ expenseIdx >= 1 /\ i = expenseIdx THEN formatAmount(tot.out)
        ELSE Blank

\* balanceRow                                   ReportsPage.tsx:1480-1486
PdfBalanceCell(hs, i, c, tot) ==
    LET runningIdx == IndexOf(hs, "Running")
        expenseIdx == IndexOf(hs, "Expense")
    IN  IF c /\ runningIdx >= 1 /\ i = runningIdx THEN formatAmount(tot.net)
        ELSE IF ~c /\ expenseIdx >= 1 /\ i = expenseIdx THEN formatAmount(tot.net)
        ELSE Blank

-----------------------------------------------------------------------------
(* Column widths of the PDF table.  Lengths are counted in 1/100 pt, and a *)
(* quotient is cut to 1/100 pt, so a computed width is at most 0.01 pt     *)
(* below the floating-point value.                                         *)

PageW == 59528                        \* jsPDF a4, unit pt: 595.28
MarginX == 4000                       \* marginX = 40
MinColW == 5000                       \* Math.max(50, ..)
MaxColW == 45000                      \* Math.min(450, ..)
DefaultColW == 5000                   \* widthMap[h] ?? 50

innerW == PageW - MarginX - MarginX

\* widthMap                                     ReportsPage.tsx:1312-1323
widthMap(h) ==
    CASE h = "Date" -> 7000
      [] h = "Kind" -> 6000
      [] h = "Division" -> 11200
      [] h = "Area" -> 8000
      [] h = "Tagged To" -> 9200
      [] h = "Category" -> 10000
      [] h = "Incoming" -> 6000
      [] h = "Expense" -> 6000
      [] h = "Running" -> 6000
      [] h = "Notes" -> 11000
      [] OTHER -> DefaultColW

Max(a, b) == IF a >= b THEN a ELSE b
Min(a, b) == IF a <= b THEN a ELSE b

RECURSIVE SumWidths(_, _)
SumWidths(ws, i) == IF i > Len(ws) THEN 0 ELSE ws[i] + SumWidths(ws, i + 1)

baseCols(hs) == [i \in 1..Len(hs) |-> widthMap(hs[i])]

\* fixedIdxs: the positions of Incoming, Expense, Running that exist
fixedIdxs(hs) == {i \in 1..Len(hs) : hs[i] \in {"Incoming", "Expense", "Running"}}

\* faulty variant: every column is scaled, the numeric ones included
colWidths_ScaleAll(hs) ==
    LET base == baseCols(hs)
        totalW == SumWidths(base, 1)
    IN  IF totalW > innerW
        THEN [i \in 1..Len(hs) |-> Max(MinColW, (base[i] * innerW) \div totalW)]
        ELSE IF totalW < innerW
        THEN [i \in 1..Len(hs) |->
                 Min(MaxColW, Max(MinColW, base[i] + ((innerW - totalW) * base[i]) \div totalW))]
        ELSE base

\* colWidths: shrink or grow the scalable columns  ReportsPage.tsx:1325-1361
colWidths(hs) ==
    LET base == baseCols(hs)
        totalW == SumWidths(base, 1)
        fixed == fixedIdxs(hs)
        fixedSum == SumWidths([i \in 1..Len(hs) |-> IF i \in fixed THEN base[i] ELSE 0], 1)
        scalableSum == SumWidths([i \in 1..Len(hs) |-> IF i \in fixed THEN 0 ELSE base[i]], 1)
        scalableCount == Len(hs) - Cardinality(fixed)
        extra == innerW - totalW
    IN  IF totalW > innerW
        THEN [i \in 1..Len(hs) |->
                 IF i \in fixed THEN base[i]
                 ELSE IF scalableSum > 0
                      THEN Max(MinColW, (base[i] * (innerW - fixedSum)) \div scalableSum)
                      ELSE Max(MinColW, base[i])]
        ELSE IF totalW < innerW /\ scalableCount > 0
        THEN [i \in 1..Len(hs) |->
                 IF i \in fixed THEN base[i]
                 ELSE LET newW == IF scalableSum > 0
                                  THEN base[i] + (extra * base[i]) \div scalableSum
                                  ELSE base[i] + extra \div scalableCount
                      IN  Min(MaxColW, Max(MinColW, newW))]
        ELSE base

\* buildDoc                                     ReportsPage.tsx:1120-1527
PdfRender(rs, k, a, t, c, n) ==
    LET hs == pdfHeaders(k, a, t, c, n)
        tot == totals(rs)
    IN  [sink |-> "pdf", headers |-> hs, body |-> PdfBody(rs, a, c),
         colWidths |-> colWidths(hs),
         \* stat cards                           ReportsPage.tsx:1236-1240
         summary |-> [inc |-> formatAmount(tot.inc), out |-> formatAmount(tot.out),
                      net |-> formatAmount(tot.net)],
         totalsRow |-> [j \in 1..Len(hs) |-> PdfTotalsCell(hs[j], tot)],
         balanceRow |-> [j \in 1..Len(hs) |-> PdfBalanceCell(hs, j, c, tot)]]

\* The branding logo, lines 1140-1175: the bundled asset is fetched, on a
\* non-OK answer the public fallback; an OK answer is drawn; anything
\* thrown inside the block is caught and logged.
HeaderH == 6600                       \* headerH = 66
LogoMaxW == 6400                      \* Math.min(logoH * 0.9, 64)

LogoOutcomes == {"asset", "fallback", "notFound", "rejects"}

\* faulty variant: a rejected fetch is not caught and buildDoc rejects
logoStep_NoCatch(o) ==
    CASE o \in {"asset", "fallback"} ->
             [image |-> TRUE, logoW |-> Min(((HeaderH - 1800) * 9) \div 10, LogoMaxW),
              thrown |-> FALSE]
      [] o = "notFound" -> [image |-> FALSE, logoW |-> 0, thrown |-> FALSE]
      [] o = "rejects" -> [image |-> FALSE, logoW |-> 0, thrown |-> TRUE]

\* what the try / catch block leaves behind     ReportsPage.tsx:1141-1175
logoStep(o) ==
    CASE o \in {"asset", "fallback"} ->
             [image |-> TRUE, logoW |-> Min(((HeaderH - 1800) * 9) \div 10, LogoMaxW),
              thrown |-> FALSE]
      [] o = "notFound" -> [image |-> FALSE, logoW |-> 0, thrown |-> FALSE]
      [] o = "rejects" -> [image |-> FALSE, logoW |-> 0, thrown |-> FALSE]

\* the document buildDoc returns; a throw that leaves the logo block ends
\* buildDoc before anything else is drawn
PdfDocument(rs, k, a, t, c, n, o) ==
    LET l == logoStep(o)
    IN  IF l.thrown
        THEN [sink |-> "pdf", rejected |-> TRUE, headers |-> <<>>, body |-> <<>>,
              colWidths |-> <<>>, summary |-> <<>>, totalsRow |-> <<>>,
              balanceRow |-> <<>>, logo |-> FALSE, logoW |-> 0]
        ELSE [rejected |-> FALSE, logo |-> l.image, logoW |-> l.logoW]
             @@ PdfRender(rs, k, a, t, c, n)

\* csvRows                                      ReportsPage.tsx:1092-1108
CsvBody(rs, a, c) ==
    LET list == csvList(rs, a)
    IN  [i \in 1..Len(list) |->
            [src |-> list[i].src, date |-> list[i].date,
             incoming |-> IF list[i].incomingNum # 0
                          THEN toFixed2(Num(list[i].incomingNum)) ELSE Blank,
             expense |-> IF list[i].expenseNum # 0
                         THEN toFixed2(Num(list[i].expenseNum)) ELSE Blank,
             running |-> IF c THEN toFixed2(Num(list[i].runningNum)) ELSE Blank]]

\* downloadCSV: header line and data lines, nothing else
\*                                              ReportsPage.tsx:1072-1117
CsvRender(rs, k, a, t, c, n) ==
    [sink |-> "csv", headers |-> csvHeaders(rs, c), body |-> CsvBody(rs, a, c),
     summary |-> <<>>, totalsRow |-> <<>>, balanceRow |-> <<>>]

-----------------------------------------------------------------------------
(* The journal query.  The journal holds one entry of every shape, so a    *)
(* predicate that is wrong for some entry is wrong for the result.         *)

MaxChanges == 2

DivisionList == {[id |-> "d1", area |-> "East"], [id |-> "d2", area |-> NULL]}
PersonOptions == {"p1"}
GroupOptions == {"g1"}
CategoryOptions == {"c1"}
DateInputs == {1, 2}
KindOptions == {"ALL", "INCOMING", "OUTGOING"}

Journal ==
    [ts : DateInputs, kind : Kinds, division_id : {NULL, "d1", "d2"},
     category_id : {"c1", "c2"}, person_id : {NULL, "p1"}, group_id : {NULL, "g1"}]

\* data of a reference-list query: undefined, or the list
Undefined == [loaded |-> FALSE, list |-> {}]
Loaded(l) == [loaded |-> TRUE, list |-> l]

\* (d.area || "").trim()
TrimArea(d) == IF d.area = NULL THEN "" ELSE d.area

\* faulty variant: an area selection narrows the direct selection
effectiveDivisionIds_Intersect(divIds, areas, divs) ==
    LET byArea == {d.id : d \in {x \in divs.list : TrimArea(x) # "" /\ TrimArea(x) \in areas}}
    IN  IF areas # {} /\ divs.loaded /\ divs.list # {}
        THEN (IF divIds = {} THEN byArea ELSE divIds \cap byArea)
        ELSE divIds

\* effectiveDivisionIds useMemo                 ReportsPage.tsx:960-969
effectiveDivisionIds(divIds, areas, divs) ==
    divIds \cup
    (IF areas # {} /\ divs.loaded /\ divs.list # {}
     THEN {d.id : d \in {x \in divs.list : TrimArea(x) # "" /\ TrimArea(x) \in areas}}
     ELSE {})

\* areaOptions useMemo                           ReportsPage.tsx:972-979
areaOptions(divs) ==
    IF ~divs.loaded THEN {} ELSE {TrimArea(d) : d \in {x \in divs.list : TrimArea(x) # ""}}

\* divisionOpts                                  ReportsPage.tsx:1550
divisionOpts(divs) == IF ~divs.loaded THEN {} ELSE {d.id : d \in divs.list}

\* the values the queryFn closure reads         ReportsPage.tsx:983-1006
Snapshot(f, t, k, divIds, areas, divs, pIds, gIds, cIds) ==
    [from |-> f, to |-> t, kind |-> k,
     effectiveDivisionIds |-> effectiveDivisionIds(divIds, areas, divs),
     personIds |-> pIds, groupIds |-> gIds, categoryIds |-> cIds]

CurrentSnapshot ==
    Snapshot(from, to, kind, divisionIds, areaValues, divisions,
             personIds, groupIds, categoryIds)

\* faulty variant: categoryIds left out of the key
queryKey_NoCategory(s) ==
    <<"report", s.from, s.to, s.kind, s.effectiveDivisionIds, s.personIds, s.groupIds>>

\* queryKey: ["report", from, to, kind, effectiveDivisionIds, personIds,
\* groupIds, categoryIds]                        ReportsPage.tsx:982
queryKey(s) ==
    <<"report", s.from, s.to, s.kind, s.effectiveDivisionIds, s.personIds,
      s.groupIds, s.categoryIds>>

\* faulty variant: the membership predicate is added for an empty list too
InIfAny_Always(ids, v) == v \in ids

\* if (ids.length) q = q.in(column, ids): no predicate for an empty list;
\* a null column is in no list                  ReportsPage.tsx:995-996
InIfAny(ids, v) == ids = {} \/ v \in ids

\* faulty variant: both lists selected are combined with AND
PersonGroup_And(s, j) ==
    /\ (s.personIds # {} => j.person_id \in s.personIds)
    /\ (s.groupIds # {} => j.group_id \in s.groupIds)

\* the person / group combinator                ReportsPage.tsx:999-1006
PersonGroup(s, j) ==
    IF s.personIds # {} /\ s.groupIds # {}
    THEN j.person_id \in s.personIds \/ j.group_id \in s.groupIds
    ELSE IF s.personIds # {} THEN j.person_id \in s.personIds
    ELSE IF s.groupIds # {} THEN j.group_id \in s.groupIds
    ELSE TRUE

\* the predicates the queryFn puts on the journal ReportsPage.tsx:984-1006
Matches(s, j) ==
    /\ j.ts >= s.from
    /\ j.ts <= s.to
    /\ (s.kind # "ALL" => j.kind = s.kind)
    /\ InIfAny(s.effectiveDivisionIds, j.division_id)
    /\ InIfAny(s.categoryIds, j.category_id)
    /\ PersonGroup(s, j)

\* what the store answers for a snapshot (as a set; the order is not used here)
QueryResult(s) == {j \in Journal : Matches(s, j)}

-----------------------------------------------------------------------------
(* The query cache behind useQuery: one query per queryKey.  A query has a *)
(* status, the snapshot its data was read under (NoData when undefined)    *)
(* and a flag telling whether a fetch is running.  A read in flight knows  *)
(* its key, the snapshot captured by its queryFn closure, and whether it   *)
(* is still the query's current fetch (live) or was cancelled.             *)

NoData == [none |-> TRUE]
FreshQuery == [status |-> "pending", dataSnap |-> NoData, fetching |-> FALSE]

WithQuery(c, k) == IF k \in DOMAIN c THEN c ELSE (k :> FreshQuery) @@ c

\* query.fetch(): a running fetch is joined, unless the query has data and
\* cancelRefetch is set, in which case it is cancelled silently and a new
\* read starts; starting a fetch without data sets status pending.
StartFetch(st, k, s, cancelRefetch) ==
    LET q == st.cache[k]
        new == [key |-> k, snap |-> s, live |-> TRUE]
    IN  IF q.fetching
        THEN IF q.dataSnap # NoData /\ cancelRefetch
             THEN [cache |-> st.cache,
                   reads |-> {IF r.key = k /\ r.live
                              THEN [r EXCEPT !.live = FALSE] ELSE r : r \in st.reads}
                             \cup {new}]
             ELSE st
        ELSE [cache |-> [st.cache EXCEPT ![k] =
                            [status |-> IF q.dataSnap = NoData THEN "pending" ELSE q.status,
                             dataSnap |-> q.dataSnap, fetching |-> TRUE]],
              reads |-> st.reads \cup {new}]

\* What one render after a state change does: the observer moves to the
\* query of the new key and fetches it (stale data never blocks a fetch),
\* then the effect calls refetch()              ReportsPage.tsx:981-1016
AfterRender(c, rs, oldKey, s) ==
    LET k == queryKey(s)
        st0 == [cache |-> WithQuery(c, k), reads |-> rs]
        st1 == IF k # oldKey THEN StartFetch(st0, k, s, FALSE) ELSE st0
    IN  StartFetch(st1, k, s, TRUE)

\* the result useQuery hands to the component
currentQuery == cache[queryKey(CurrentSnapshot)]
hasData == currentQuery.dataSnap # NoData
reportRows == IF hasData THEN QueryResult(currentQuery.dataSnap) ELSE {}   \* rows ?? []
isLoading == currentQuery.status = "pending" /\ currentQuery.fetching

\* <tbody>: Loading / No entries / the rows     ReportsPage.tsx:1706-1737
TableBody ==
    IF isLoading THEN "Loading"
    ELSE IF reportRows = {} THEN "No entries."
    ELSE "rows"

-----------------------------------------------------------------------------
(* Spec: filter edits, reference data, journal reads *)

InitFilters ==
    /\ from = 1                       \* startOfMonth
    /\ to = 2                         \* today
    /\ kind = "ALL"
    /\ divisionIds = {}
    /\ personIds = {}
    /\ groupIds = {}
    /\ categoryIds = {}
    /\ areaValues = {}

InitQuery ==
    /\ divisions = Undefined
    /\ changes = 0
    /\ LET s == Snapshot(1, 2, "ALL", {}, {}, Undefined, {}, {}, {})
           st == AfterRender(<<>>, {}, <<>>, s)
       IN  cache = st.cache /\ reads = st.reads

\* the session has loaded and a user is signed in: the state in which a
\* protected page is on screen        auth.tsx:127-138, App.tsx:16-27
AuthSignedIn ==
    auth = [user |-> "u1", loading |-> FALSE, pc |-> "subscribed",
            stored |-> "u1", events |-> <<>>, path |-> "/reports"]

\* no URL yet, no preview            ReportsPage.tsx:1530
InitUrls ==
    /\ objectUrls = {}
    /\ urlCount = 0
    /\ previewUrl = 0
    /\ mounted = TRUE
    /\ previewRuns = [running |-> <<>>, queued |-> 0]

InitToggles ==
    /\ includeNotes = FALSE
    /\ includeArea = FALSE
    /\ includeTagged = FALSE
    /\ includeKind = FALSE
    /\ includeCumulative = TRUE

Init ==
    /\ InitUrls
    /\ AuthSignedIn
    /\ InitFilters
    /\ InitQuery
    /\ InitToggles
    /\ rows = <<>>
    /\ emitted = UiRender(<<>>, FALSE, FALSE, FALSE, TRUE, FALSE)

\* a filter edit: the new values, then the render that follows
Edit(f, t, k, divIds, areas, pIds, gIds, cIds) ==
    /\ changes < MaxChanges
    /\ changes' = changes + 1
    /\ from' = f /\ to' = t /\ kind' = k
    /\ divisionIds' = divIds /\ areaValues' = areas
    /\ personIds' = pIds /\ groupIds' = gIds /\ categoryIds' = cIds
    /\ LET st == AfterRender(cache, reads, queryKey(CurrentSnapshot),
                             Snapshot(f, t, k, divIds, areas, divisions, pIds, gIds, cIds))
       IN  cache' = st.cache /\ reads' = st.reads
    /\ UNCHANGED <<divisions, renderVars, urlVars, authVars>>

\* MultiPicker toggle(id)                        ReportsPage.tsx:844-847
Toggled(sel, id) == IF id \in sel THEN sel \ {id} ELSE sel \cup {id}

SetFrom ==
    \E v \in DateInputs \ {from} :
        Edit(v, to, kind, divisionIds, areaValues, personIds, groupIds, categoryIds)
SetTo ==
    \E v \in DateInputs \ {to} :
        Edit(from, v, kind, divisionIds, areaValues, personIds, groupIds, categoryIds)
SetKind ==
    \E v \in KindOptions \ {kind} :
        Edit(from, to, v, divisionIds, areaValues, personIds, groupIds, categoryIds)
ToggleDivision ==
    \E id \in divisionOpts(divisions) :
        Edit(from, to, kind, Toggled(divisionIds, id), areaValues, personIds, groupIds, categoryIds)
ToggleArea ==
    \E a \in areaOptions(divisions) :
        Edit(from, to, kind, divisionIds, Toggled(areaValues, a), personIds, groupIds, categoryIds)
TogglePerson ==
    \E id \in PersonOptions :
        Edit(from, to, kind, divisionIds, areaValues, Toggled(personIds, id), groupIds, categoryIds)
ToggleGroup ==
    \E id \in GroupOptions :
        Edit(from, to, kind, divisionIds, areaValues, personIds, Toggled(groupIds, id), categoryIds)
ToggleCategory ==
    \E id \in CategoryOptions :
        Edit(from, to, kind, divisionIds, areaValues, personIds, groupIds, Toggled(categoryIds, id))

\* faulty variant: the reset also puts the date range back to its default
ResetFilters_WithDates == Edit(1, 2, "ALL", {}, {}, {}, {}, {})

\* "Reset filters"                               ReportsPage.tsx:1808-1815
ResetFilters == Edit(from, to, "ALL", {}, {}, {}, {}, {})

\* the divisions list arrives; effectiveDivisionIds is recomputed
DivisionsLoaded ==
    /\ ~divisions.loaded
    /\ divisions' = Loaded(DivisionList)
    /\ LET st == AfterRender(cache, reads, queryKey(CurrentSnapshot),
                             Snapshot(from, to, kind, divisionIds, areaValues, Loaded(DivisionList),
                                      personIds, groupIds, categoryIds))
       IN  cache' = st.cache /\ reads' = st.reads
    /\ UNCHANGED <<filterVars, changes, renderVars, urlVars, authVars>>

\* const { data, error } = await q: the store answers a read
ReadSucceeds ==
    \E r \in reads :
        /\ r.live
        /\ cache' = [cache EXCEPT ![r.key] =
                        [status |-> "success", dataSnap |-> r.snap, fetching |-> FALSE]]
        /\ reads' = reads \ {r}
        /\ UNCHANGED <<filterVars, divisions, changes, renderVars, urlVars, authVars>>

\* if (error) throw error                        ReportsPage.tsx:1009
ReadFails ==
    \E r \in reads :
        /\ r.live
        /\ cache' = [cache EXCEPT ![r.key] =
                        [status |-> "error", dataSnap |-> cache[r.key].dataSnap,
                         fetching |-> FALSE]]
        /\ reads' = reads \ {r}
        /\ UNCHANGED <<filterVars, divisions, changes, renderVars, urlVars, authVars>>

\* the answer to a cancelled read arrives and is dropped
ReadDropped ==
    \E r \in reads :
        /\ ~r.live
        /\ reads' = reads \ {r}
        /\ UNCHANGED <<filterVars, divisions, cache, changes, renderVars, urlVars, authVars>>

Next ==
    \/ SetFrom
    \/ SetTo
    \/ SetKind
    \/ ToggleDivision
    \/ ToggleArea
    \/ TogglePerson
    \/ ToggleGroup
    \/ ToggleCategory
    \/ ResetFilters
    \/ DivisionsLoaded
    \/ ReadSucceeds
    \/ ReadFails
    \/ ReadDropped

vars == <<filterVars, queryVars, renderVars, urlVars, authVars>>

Spec == Init /\ [][Next]_vars

-----------------------------------------------------------------------------
(* SpecRender: toggles and sinks over a fetched row set *)

InitRender ==
    /\ InitUrls
    /\ AuthSignedIn
    /\ rows \in FetchResults
    /\ InitToggles
    /\ emitted = UiRender(rows, FALSE, FALSE, FALSE, TRUE, FALSE)
    /\ InitFilters
    /\ InitQuery

\* each checkbox re-renders the table         ReportsPage.tsx:1648-1667
SetIncludeArea ==
    /\ includeArea' = ~includeArea
    /\ UNCHANGED <<rows, includeNotes, includeTagged, includeKind, includeCumulative,
                   filterVars, queryVars, urlVars, authVars>>
    /\ emitted' = UiRender(rows, includeKind, ~includeArea, includeTagged,
                           includeCumulative, includeNotes)

SetIncludeTagged ==
    /\ includeTagged' = ~includeTagged
    /\ UNCHANGED <<rows, includeNotes, includeArea, includeKind, includeCumulative,
                   filterVars, queryVars, urlVars, authVars>>
    /\ emitted' = UiRender(rows, includeKind, includeArea, ~includeTagged,
                           includeCumulative, includeNotes)

SetIncludeKind ==
    /\ includeKind' = ~includeKind
    /\ UNCHANGED <<rows, includeNotes, includeArea, includeTagged, includeCumulative,
                   filterVars, queryVars, urlVars, authVars>>
    /\ emitted' = UiRender(rows, ~includeKind, includeArea, includeTagged,
                           includeCumulative, includeNotes)

SetIncludeCumulative ==
    /\ includeCumulative' = ~includeCumulative
    /\ UNCHANGED <<rows, includeNotes, includeArea, includeTagged, includeKind,
                   filterVars, queryVars, urlVars, authVars>>
    /\ emitted' = UiRender(rows, includeKind, includeArea, includeTagged,
                           ~includeCumulative, includeNotes)

SetIncludeNotes ==
    /\ includeNotes' = ~includeNotes
    /\ UNCHANGED <<rows, includeArea, includeTagged, includeKind, includeCumulative,
                   filterVars, queryVars, urlVars, authVars>>
    /\ emitted' = UiRender(rows, includeKind, includeArea, includeTagged,
                           includeCumulative, ~includeNotes)

\* the CSV's object URL is created and revoked within the handler
\*                                              ReportsPage.tsx:1111-1116
downloadCSV ==
    /\ mounted
    /\ emitted' = CsvRender(rows, includeKind, includeArea, includeTagged,
                            includeCumulative, includeNotes)
    /\ UNCHANGED <<rows, includeNotes, includeArea, includeTagged, includeKind,
                   includeCumulative, filterVars, queryVars, urlVars, authVars>>

\* buildDoc, as far as the table, the cards and the totals go: the logo
\* block touches none of them and is followed in SpecDoc
buildDoc ==
    /\ emitted' = PdfRender(rows, includeKind, includeArea, includeTagged,
                            includeCumulative, includeNotes)
    /\ UNCHANGED <<rows, includeNotes, includeArea, includeTagged, includeKind,
                   includeCumulative, filterVars, queryVars, urlVars, authVars>>

NextRender ==
    \/ SetIncludeArea
    \/ SetIncludeTagged
    \/ SetIncludeKind
    \/ SetIncludeCumulative
    \/ SetIncludeNotes
    \/ downloadCSV
    \/ buildDoc

SpecRender == InitRender /\ [][NextRender]_vars

-----------------------------------------------------------------------------
(* Reading a sink's output back *)

IsMoney(cell) == "whole" \in DOMAIN cell

\* a rendered 2-decimal amount, read back as paise
Paise(cell) ==
    IF IsMoney(cell)
    THEN (IF cell.neg THEN -1 ELSE 1) * (cell.whole * 100 + cell.frac)
    ELSE 0

\* the sum of the well-formed amounts of kind k over the fetched rows, as a
\* sum over the set of row indices (no order involved)
RECURSIVE SumOver(_, _, _)
SumOver(rs, k, S) ==
    IF S = {} THEN 0
    ELSE LET i == CHOOSE x \in S : TRUE
         IN  (IF rs[i].kind = k /\ rs[i].amount.ok THEN rs[i].amount.paise ELSE 0)
             + SumOver(rs, k, S \ {i})

incomeSum(rs) == SumOver(rs, "INCOMING", 1..Len(rs))
expenseSum(rs) == SumOver(rs, "OUTGOING", 1..Len(rs))

RECURSIVE ColumnSum(_, _, _)
ColumnSum(body, col, i) ==
    IF i > Len(body) THEN 0 ELSE Paise(body[i][col]) + ColumnSum(body, col, i + 1)

Render(sink, rs, k, a, t, c, n) ==
    CASE sink = "ui" -> UiRender(rs, k, a, t, c, n)
      [] sink = "pdf" -> PdfRender(rs, k, a, t, c, n)
      [] sink = "csv" -> CsvRender(rs, k, a, t, c, n)

SrcOrder(body) == [i \in 1..Len(body) |-> body[i].src]

-----------------------------------------------------------------------------
(* The reference reading of a filter selection: only the dimensions in     *)
(* dims restrict; a dimension left out restricts nothing.                  *)
Restricting(s) ==
    {d \in {"division", "category", "person", "group"} :
        CASE d = "division" -> s.effectiveDivisionIds # {}
          [] d = "category" -> s.categoryIds # {}
          [] d = "person" -> s.personIds # {}
          [] d = "group" -> s.groupIds # {}}

Baseline(s, dims) ==
    {j \in Journal :
        /\ s.from <= j.ts /\ j.ts <= s.to
        /\ (s.kind = "ALL" \/ j.kind = s.kind)
        /\ ("division" \in dims => j.division_id \in s.effectiveDivisionIds)
        /\ ("category" \in dims => j.category_id \in s.categoryIds)
        /\ ({"person", "group"} \subseteq dims =>
               j.person_id \in s.personIds \/ j.group_id \in s.groupIds)
        /\ (("person" \in dims /\ "group" \notin dims) => j.person_id \in s.personIds)
        /\ (("group" \in dims /\ "person" \notin dims) => j.group_id \in s.groupIds)}

ReadSnapshots ==
    {cache[k].dataSnap : k \in {x \in DOMAIN cache : cache[x].dataSnap # NoData}}
    \cup {r.snap : r \in reads} \cup {CurrentSnapshot}

(* C1: an empty multi-valued filter adds no predicate: the result of every *)
(* journal read equals the result with the empty dimensions left out, and  *)
(* is the whole date/kind slice of the journal when all of them are empty. *)
C1_EmptyFilterNoRestriction ==
    \A s \in ReadSnapshots :
        LET result == QueryResult(s)
            without == Baseline(s, Restricting(s))
        IN  /\ result = without
            /\ Restricting(s) = {} => result = Baseline(s, {})
            /\ without # {} => result # {}

C1_Witness ==
    /\ hasData
    /\ currentQuery.dataSnap = CurrentSnapshot
    /\ categoryIds = {} /\ divisionIds = {} /\ areaValues = {} /\ groupIds = {}
    /\ personIds = {"p1"}
    /\ reportRows # {}

(* C2: the rows on screen are never those of another filter snapshot: the  *)
(* data the component renders was read under the current filter selection, *)
(* every cached result sits under the key of the snapshot it was read      *)
(* under, and once no read is in flight and the current read succeeded the *)
(* rows are the result for the current selection.                          *)
C2_NoStaleOverwrite ==
    /\ hasData => currentQuery.dataSnap = CurrentSnapshot
    /\ \A k \in DOMAIN cache :
           cache[k].dataSnap # NoData => queryKey(cache[k].dataSnap) = k
    /\ (reads = {} /\ currentQuery.status = "success") =>
           reportRows = QueryResult(CurrentSnapshot)

\* the read of an earlier selection has been answered while the read of the
\* current selection is still in flight
C2_Witness ==
    /\ changes > 0
    /\ ~hasData /\ isLoading
    /\ \E k \in DOMAIN cache :
           /\ k # queryKey(CurrentSnapshot)
           /\ cache[k].dataSnap # NoData
           /\ QueryResult(cache[k].dataSnap) # QueryResult(CurrentSnapshot)

(* C3: a failed journal read is never presented as an empty result: when   *)
(* the current query is in the error state the table is not the            *)
(* "No entries." table.                                                    *)
C3_FailureNotShownAsEmpty ==
    currentQuery.status = "error" => TableBody # "No entries."

-----------------------------------------------------------------------------
(* C4: in chronological mode (the area re-sort off) every sink emits the   *)
(* rows ascending by date, equal dates in reversed fetch order, i.e. the   *)
(* emitted list is the fetched list reversed (oldest first).               *)
C4_ChronologicalAscending ==
    ~includeArea =>
        \A i, j \in 1..Len(emitted.body) :
            i < j => \/ emitted.body[i].date < emitted.body[j].date
                     \/ /\ emitted.body[i].date = emitted.body[j].date
                        /\ emitted.body[i].src > emitted.body[j].src

(* C5: with the running balance on, the accumulator starts at 0, each      *)
(* emitted row carries the previous emitted row's running value plus its   *)
(* incoming minus its expense, in every sink, and the last emitted row's   *)
(* running value is the net of the fetched rows.                           *)
C5_RunningRecurrence ==
    includeCumulative =>
        LET b == emitted.body
        IN  /\ \A i \in 1..Len(b) :
                   /\ IsMoney(b[i].running)
                   /\ Paise(b[i].running)
                        = (IF i = 1 THEN 0 ELSE Paise(b[i - 1].running))
                          + Paise(b[i].incoming) - Paise(b[i].expense)
            /\ Len(b) > 0 =>
                   Paise(b[Len(b)].running) = incomeSum(rows) - expenseSum(rows)

C5_Witness ==
    /\ includeCumulative /\ includeArea
    /\ emitted.sink = "csv"
    /\ Len(emitted.body) = 2
    /\ emitted.body[1].src = 2
    /\ IsMoney(emitted.body[1].expense) /\ IsMoney(emitted.body[2].incoming)

(* C6: the area re-sort is presentation only: with the running balance on, *)
(* every transaction shows the same running value with the re-sort on as   *)
(* with it off.                                                            *)
C6_AreaSortKeepsRunning ==
    (includeArea /\ includeCumulative) =>
        LET off == Render(emitted.sink, rows, includeKind, FALSE, includeTagged,
                          includeCumulative, includeNotes).body
        IN  \A i \in 1..Len(emitted.body) : \A j \in 1..Len(off) :
                emitted.body[i].src = off[j].src
                    => Paise(emitted.body[i].running) = Paise(off[j].running)

(* C7: totals.inc and totals.out are the sums of the fetched INCOMING / *)
(* OUTGOING amounts, totals.net their difference, and the summary shown by *)
(* the table and by the PDF carries exactly these under every toggle       *)
(* combination.                                                            *)
C7_TotalsFromRows ==
    LET tot == totals(rows)
    IN  /\ tot.inc = Num(incomeSum(rows))
        /\ tot.out = Num(expenseSum(rows))
        /\ tot.net = Num(incomeSum(rows) - expenseSum(rows))
        /\ emitted.sink \in {"ui", "pdf"} =>
               /\ IsMoney(emitted.summary.inc)
               /\ Paise(emitted.summary.inc) = incomeSum(rows)
               /\ Paise(emitted.summary.out) = expenseSum(rows)
               /\ Paise(emitted.summary.net) = incomeSum(rows) - expenseSum(rows)

C7_Witness ==
    /\ emitted.sink = "pdf" /\ includeArea /\ ~includeCumulative /\ includeNotes
    /\ Len(emitted.body) = 2 /\ emitted.body[1].src = 2
    /\ incomeSum(rows) > 0 /\ expenseSum(rows) > incomeSum(rows)

(* C8: for the same fetched rows and toggles, the CSV and the PDF hold the *)
(* rows of the on-screen table, in the same order, each with the same      *)
(* incoming, expense and running value.                                    *)
C8_SinksSameRows ==
    LET ui == UiBody(rows, includeArea, includeCumulative)
        b == emitted.body
    IN  /\ SrcOrder(b) = SrcOrder(ui)
        /\ \A i \in 1..Len(b) : i <= Len(ui) =>
               /\ Shown(b[i].incoming) = Shown(ui[i].incoming)
               /\ Shown(b[i].expense) = Shown(ui[i].expense)
               /\ Shown(b[i].running) = Shown(ui[i].running)

C10_SinksSameColumns ==
    emitted.headers =
        <<"Date">> \o Opt(includeKind, "Kind") \o <<"Division">>
        \o Opt(includeArea, "Area") \o Opt(includeTagged, "Tagged To")
        \o <<"Category", "Incoming", "Expense">>
        \o Opt(includeCumulative, "Running") \o Opt(includeNotes, "Notes")

-----------------------------------------------------------------------------
(* SpecMalformed: the sinks over fetched rows of which one carries an      *)
(* amount that Number() does not parse (a non-numeric string, undefined).  *)

Malformed == [ok |-> FALSE]

MalformedRowDomain ==
    [ts : Dates, kind : Kinds, amount : RawAmounts \cup {Malformed}, area : {NULL}]

MalformedFetchResults ==
    UNION {{s \in [1..n -> MalformedRowDomain] :
                /\ FetchOrdered(s)
                /\ \E i \in 1..n : s[i].amount = Malformed} : n \in 1..MaxRows}

InitMalformed ==
    /\ InitUrls
    /\ AuthSignedIn
    /\ rows \in MalformedFetchResults
    /\ InitToggles
    /\ emitted = UiRender(rows, FALSE, FALSE, FALSE, TRUE, FALSE)
    /\ InitFilters
    /\ InitQuery

SpecMalformed == InitMalformed /\ [][NextRender]_vars

(* C11: a row whose amount is not a valid number counts as amount 0: the   *)
(* totals inc, out and net are the numeric sums of the well-formed         *)
(* amounts, the summary a sink shows is numeric, and the row's incoming    *)
(* and expense cells carry 0 (or nothing).                                 *)
C11_MalformedAmountIsZero ==
    LET tot == totals(rows)
    IN  /\ tot.inc = Num(incomeSum(rows))
        /\ tot.out = Num(expenseSum(rows))
        /\ tot.net = Num(incomeSum(rows) - expenseSum(rows))
        /\ emitted.sink \in {"ui", "pdf"} =>
               /\ IsMoney(emitted.summary.inc)
               /\ IsMoney(emitted.summary.out)
               /\ IsMoney(emitted.summary.net)
        /\ \A i \in 1..Len(emitted.body) :
               rows[emitted.body[i].src].amount = Malformed =>
                   /\ Paise(emitted.body[i].incoming) = 0
                   /\ Paise(emitted.body[i].expense) = 0

-----------------------------------------------------------------------------
(* C12: the column widths of every PDF sum to the usable page width        *)
(* (page width minus both margins) within 1 pt, in the shrink and in the   *)
(* grow case.                                                              *)
C12_WidthsFillPage ==
    emitted.sink = "pdf" =>
        LET sum == SumWidths(emitted.colWidths, 1)
        IN  sum - innerW <= 100 /\ innerW - sum <= 100

(* C13: in every PDF the columns Incoming, Expense and Running have their  *)
(* nominal width; the negotiation changes scalable columns only.           *)
C13_NumericColumnsFixed ==
    emitted.sink = "pdf" =>
        \A i \in 1..Len(emitted.headers) :
            emitted.headers[i] \in {"Incoming", "Expense", "Running"}
                => emitted.colWidths[i] = widthMap(emitted.headers[i])

\* the shrink case with all ten columns: a scalable column is narrower than
\* nominal and the three numeric columns are present
C13_Witness ==
    /\ emitted.sink = "pdf"
    /\ Len(emitted.headers) = 10
    /\ SumWidths(baseCols(emitted.headers), 1) > innerW
    /\ \E i \in 1..10 : emitted.colWidths[i] < widthMap(emitted.headers[i])
    /\ Len(emitted.body) > 0

-----------------------------------------------------------------------------
(* C14: the division predicate is membership in the union of the directly  *)
(* selected division ids and the ids of the divisions whose area is        *)
(* selected: the set the query uses is that union, and the rows on screen  *)
(* are the rows of the other predicates whose division is in it.           *)
C14_EffectiveDivisionUnion ==
    LET byArea == IF divisions.loaded
                  THEN {d.id : d \in {x \in divisions.list : x.area \in areaValues}}
                  ELSE {}
        want == divisionIds \cup byArea
        s == CurrentSnapshot
    IN  /\ s.effectiveDivisionIds = want
        /\ (hasData /\ want # {}) =>
               reportRows = {j \in Baseline(s, Restricting(s) \ {"division"}) :
                                 j.division_id \in want}

\* d2 selected directly, d1 through its area "East": rows of both on screen
C14_Witness ==
    /\ divisionIds = {"d2"} /\ areaValues = {"East"}
    /\ hasData
    /\ \E j \in reportRows : j.division_id = "d1"
    /\ \E j \in reportRows : j.division_id = "d2"
    /\ \A j \in reportRows : j.division_id # NULL

-----------------------------------------------------------------------------
(* C15: with persons and groups both selected a transaction is on screen   *)
(* iff its person is selected or its group is selected; with only one of   *)
(* the two selected, iff it is a member of that one; with neither, the     *)
(* person and the group do not restrict.                                   *)
C15_PersonGroupEither ==
    hasData =>
        LET s == CurrentSnapshot
            others == Baseline(s, Restricting(s) \ {"person", "group"})
            Tagged(j) ==
                CASE personIds # {} /\ groupIds # {} ->
                         j.person_id \in personIds \/ j.group_id \in groupIds
                  [] personIds # {} /\ groupIds = {} -> j.person_id \in personIds
                  [] personIds = {} /\ groupIds # {} -> j.group_id \in groupIds
                  [] OTHER -> TRUE
        IN  reportRows = {j \in others : Tagged(j)}

\* both selected: a row tagged to the person only and a row tagged to the
\* group only are on screen, an untagged row is not
C15_Witness ==
    /\ personIds = {"p1"} /\ groupIds = {"g1"}
    /\ hasData
    /\ \E j \in reportRows : j.person_id = "p1" /\ j.group_id = NULL
    /\ \E j \in reportRows : j.person_id = NULL /\ j.group_id = "g1"
    /\ \A j \in reportRows : ~(j.person_id = NULL /\ j.group_id = NULL)

-----------------------------------------------------------------------------
(* SpecPost: the journal as the app's own writers fill it, and the report  *)
(* over it.  rows is the journal in the report's fetch order; the report   *)
(* page reads it again after a write and renders the table.                *)

MaxPosted == 3

\* standard_expense_templates.default_amount: null (left blank) or a number
NoDefault == [null |-> TRUE]
TemplateAmounts == {NoDefault, [null |-> FALSE, paise |-> 150]}

\* amount: Number(t.default_amount ?? 0)         Home.tsx:196
TemplateAmount(d) == [ok |-> TRUE, paise |-> IF d = NoDefault THEN 0 ELSE d.paise]

\* amount: z.coerce.number().positive(..)        JournalPage.tsx:30
FormAmounts == {[ok |-> TRUE, paise |-> 150]}

\* a row inserted now is the newest created: the report's order (ts desc,
\* created_at desc) puts it before every row of the same or an earlier date
RECURSIVE Inserted(_, _)
Inserted(list, r) ==
    IF list = <<>> \/ list[1].ts <= r.ts THEN <<r>> \o list
    ELSE <<list[1]>> \o Inserted(Tail(list), r)

RECURSIVE InsertedAll(_, _, _)
InsertedAll(list, payload, i) ==
    IF i > Len(payload) THEN list
    ELSE InsertedAll(Inserted(list, payload[i]), payload, i + 1)

InitPost ==
    /\ InitUrls
    /\ AuthSignedIn
    /\ rows = <<>>
    /\ InitToggles
    /\ emitted = UiRender(<<>>, FALSE, FALSE, FALSE, TRUE, FALSE)
    /\ InitFilters
    /\ InitQuery

\* StandardExpensesPage postMut                  Home.tsx:185-203
postMut ==
    \E n \in 1..2 : \E templates \in [1..n -> TemplateAmounts] : \E postDate \in Dates :
        LET payload == [i \in 1..n |->
                           [ts |-> postDate, kind |-> "OUTGOING",
                            amount |-> TemplateAmount(templates[i]), area |-> NULL]]
        IN  /\ Len(rows) + n <= MaxPosted
            /\ \E i \in 1..n : payload[i].amount.paise > 0
            /\ rows' = InsertedAll(rows, payload, 1)
            /\ emitted' = UiRender(rows', includeKind, includeArea, includeTagged,
                                   includeCumulative, includeNotes)
            /\ UNCHANGED <<includeNotes, includeArea, includeTagged, includeKind,
                           includeCumulative, filterVars, queryVars, urlVars, authVars>>

\* JournalPage addEntry, behind the form schema  JournalPage.tsx:112-145
addEntry ==
    \E ts \in Dates : \E k \in Kinds : \E amount \in FormAmounts :
        /\ Len(rows) + 1 <= MaxPosted
        /\ rows' = Inserted(rows, [ts |-> ts, kind |-> k, amount |-> amount, area |-> NULL])
        /\ emitted' = UiRender(rows', includeKind, includeArea, includeTagged,
                               includeCumulative, includeNotes)
        /\ UNCHANGED <<includeNotes, includeArea, includeTagged, includeKind,
                       includeCumulative, filterVars, queryVars, urlVars, authVars>>

NextPost ==
    \/ postMut
    \/ addEntry
    \/ SetIncludeArea
    \/ SetIncludeTagged
    \/ SetIncludeKind
    \/ SetIncludeCumulative
    \/ SetIncludeNotes
    \/ downloadCSV
    \/ buildDoc

SpecPost == InitPost /\ [][NextPost]_vars

(* C16: in chronological mode (area re-sort off) every emitted row has     *)
(* exactly one of incoming > 0 and expense > 0, whatever rows the app's    *)
(* writers have put into the journal.                                      *)
C16_ExactlyOneSide ==
    ~includeArea =>
        \A i \in 1..Len(emitted.body) :
            (Paise(emitted.body[i].incoming) > 0) # (Paise(emitted.body[i].expense) > 0)

-----------------------------------------------------------------------------
(* C17: a "Reset filters" step leaves divisionIds, areaValues, personIds,  *)
(* groupIds and categoryIds empty and kind ALL, and does not change from   *)
(* and to.                                                                 *)
C17_ResetKeepsDateRange ==
    [][ResetFilters =>
          /\ divisionIds' = {} /\ areaValues' = {} /\ personIds' = {}
          /\ groupIds' = {} /\ categoryIds' = {}
          /\ kind' = "ALL"
          /\ from' = from /\ to' = to]_vars

\* the date range was moved off its default and a second edit left every
\* other filter at its default: that edit can only be the reset
C17_Witness ==
    /\ changes = 2
    /\ from = 2 /\ to = 2
    /\ kind = "ALL"
    /\ divisionIds = {} /\ areaValues = {} /\ personIds = {}
    /\ groupIds = {} /\ categoryIds = {}

-----------------------------------------------------------------------------
(* C18: while the report's rows are on screen, a step after which the      *)
(* current read has failed or is still pending leaves rows on screen: the  *)
(* table is not replaced by "Loading" or by "No entries.".                 *)
C18_PreviousReportStays ==
    [][(TableBody = "rows" /\ currentQuery'.status # "success")
          => TableBody' = "rows"]_vars

-----------------------------------------------------------------------------
(* SpecUrls: the object URLs of the generated artifacts.  A URL is a       *)
(* number, handed out in order of creation.                                *)

MaxUrls == 3

InitUrlsSpec ==
    /\ rows \in {s \in FetchResults : Len(s) = 1 /\ s[1].area = NULL}
    /\ InitToggles
    /\ InitUrls
    /\ AuthSignedIn
    /\ emitted = UiRender(rows, FALSE, FALSE, FALSE, TRUE, FALSE)
    /\ InitFilters
    /\ InitQuery

\* handlePreview: revoke the URL on show, create one for the new blob, keep
\* it in previewUrl                              ReportsPage.tsx:1531-1537
handlePreview ==
    /\ mounted
    /\ urlCount < MaxUrls
    /\ \E o \in LogoOutcomes :
           emitted' = PdfDocument(rows, includeKind, includeArea, includeTagged,
                                  includeCumulative, includeNotes, o)
    /\ urlCount' = urlCount + 1
    /\ objectUrls' = (objectUrls \ {previewUrl}) \cup {urlCount + 1}
    /\ previewUrl' = urlCount + 1
    /\ UNCHANGED <<rows, includeNotes, includeArea, includeTagged, includeKind,
                   includeCumulative, filterVars, queryVars, mounted, previewRuns,
                   authVars>>

\* handleOpen: window.open(URL.createObjectURL(..))  ReportsPage.tsx:1538-1541
handleOpen ==
    /\ mounted
    /\ urlCount < MaxUrls
    /\ \E o \in LogoOutcomes :
           emitted' = PdfDocument(rows, includeKind, includeArea, includeTagged,
                                  includeCumulative, includeNotes, o)
    /\ urlCount' = urlCount + 1
    /\ objectUrls' = objectUrls \cup {urlCount + 1}
    /\ UNCHANGED <<rows, includeNotes, includeArea, includeTagged, includeKind,
                   includeCumulative, filterVars, queryVars, previewUrl, mounted,
                   previewRuns,
                   authVars>>

\* handleDownload: doc.save(..), no URL of the page's own
\*                                              ReportsPage.tsx:1542-1545
handleDownload ==
    /\ mounted
    /\ \E o \in LogoOutcomes :
           emitted' = PdfDocument(rows, includeKind, includeArea, includeTagged,
                                  includeCumulative, includeNotes, o)
    /\ UNCHANGED <<rows, includeNotes, includeArea, includeTagged, includeKind,
                   includeCumulative, filterVars, queryVars, urlVars, authVars>>

\* unmount: the effect cleanup revokes previewUrl  ReportsPage.tsx:1546
unmount ==
    /\ mounted
    /\ mounted' = FALSE
    /\ objectUrls' = objectUrls \ {previewUrl}
    /\ UNCHANGED <<renderVars, filterVars, queryVars, urlCount, previewUrl, previewRuns,
                   authVars>>

NextUrls ==
    \/ downloadCSV
    \/ handlePreview
    \/ handleOpen
    \/ handleDownload
    \/ SetIncludeArea
    \/ SetIncludeCumulative
    \/ unmount

SpecUrls == InitUrlsSpec /\ [][NextUrls]_vars

(* C19: once the page is unmounted, no object URL it created is left       *)
(* un-revoked, whatever downloads, previews and opens came before.         *)
C19_AllUrlsRevoked ==
    ~mounted => objectUrls = {}

-----------------------------------------------------------------------------
(* SpecDoc: the whole of buildDoc, logo block included, over every fetched *)
(* row set; the two toggles that change the rows of the document.          *)

NextDoc ==
    \/ handleDownload
    \/ SetIncludeArea
    \/ SetIncludeCumulative

SpecDoc == InitRender /\ [][NextDoc]_vars

(* C20: when the logo fetch fails, buildDoc still returns the complete     *)
(* document: the same headers, rows, summary cards, totals row and balance *)
(* row as with the logo, built from the same rows and totals, only         *)
(* without the image.                                                      *)
C20_LogoFailureSwallowed ==
    (emitted.sink = "pdf" /\ ~emitted.logo) =>
        /\ ~emitted.rejected
        /\ emitted.headers = pdfHeaders(includeKind, includeArea, includeTagged,
                                        includeCumulative, includeNotes)
        /\ emitted.body = PdfBody(rows, includeArea, includeCumulative)
        /\ Len(emitted.body) = Len(rows)
        /\ Paise(emitted.summary.inc) = incomeSum(rows)
        /\ Paise(emitted.summary.out) = expenseSum(rows)
        /\ Paise(emitted.summary.net) = incomeSum(rows) - expenseSum(rows)
        /\ Len(emitted.totalsRow) = Len(emitted.headers)
        /\ Len(emitted.balanceRow) = Len(emitted.headers)
        /\ \E j \in 1..Len(emitted.headers) :
               IsMoney(emitted.balanceRow[j])
                   /\ Paise(emitted.balanceRow[j]) = incomeSum(rows) - expenseSum(rows)

C20_Witness ==
    /\ emitted.sink = "pdf" /\ ~emitted.logo /\ emitted.logoW = 0
    /\ Len(emitted.body) = 2
    /\ incomeSum(rows) > 0 /\ expenseSum(rows) > 0

-----------------------------------------------------------------------------
(* SpecSided: the two-sided alignment.  Neither variant of ReportsPage.tsx *)
(* carries this mode (its toggles are the five of lines 948-952), so the   *)
(* alignment is written from the specification's section on the alignment  *)
(* strategist; the rows it aligns are the materialised rows of uiRows.     *)

MaxSided == 3

SidedAmounts ==
    {[ok |-> TRUE, paise |-> 10000], [ok |-> TRUE, paise |-> 5000],
     [ok |-> TRUE, paise |-> 3000]}

SidedRowDomain == [ts : Dates, kind : Kinds, amount : SidedAmounts, area : {NULL}]

SidedFetchResults ==
    UNION {{s \in [1..n -> SidedRowDomain] : FetchOrdered(s)} : n \in 0..MaxSided}

\* "each independently sorted ascending by date": stable, ascending
RECURSIVE InsertByDate(_, _)
InsertByDate(x, s) ==
    IF s = <<>> THEN <<x>>
    ELSE IF s[Len(s)].date <= x.date
         THEN Append(s, x)
         ELSE Append(InsertByDate(x, SubSeq(s, 1, Len(s) - 1)), s[Len(s)])

RECURSIVE SortByDateFrom(_, _, _)
SortByDateFrom(s, i, acc) ==
    IF i > Len(s) THEN acc ELSE SortByDateFrom(s, i + 1, InsertByDate(s[i], acc))

\* "partition materialized rows into an income list and an expense list"
sideList(list, k) ==
    LET OfKind(r) == r.kind = k
    IN  SortByDateFrom(SelectSeq(list, OfKind), 1, <<>>)

incomeList(list) == sideList(list, "INCOMING")
expenseList(list) == sideList(list, "OUTGOING")

\* the missing side of a paired row
NoEntry == [none |-> TRUE]

\* "take incomeList[i] if it exists, expenseList[i] if it exists";
\* "running += incomeList[i].incoming", then "running -= expenseList[i].expense"
RECURSIVE ZipFrom(_, _, _, _, _)
ZipFrom(inc, exp, i, running, acc) ==
    IF i > Len(inc) /\ i > Len(exp) THEN acc
    ELSE LET left == IF i <= Len(inc) THEN inc[i] ELSE NoEntry
             right == IF i <= Len(exp) THEN exp[i] ELSE NoEntry
             afterIncome == IF left = NoEntry THEN running
                            ELSE running + left.incomingNum
             afterExpense == IF right = NoEntry THEN afterIncome
                             ELSE afterIncome - right.expenseNum
         IN  ZipFrom(inc, exp, i + 1, afterExpense,
                     Append(acc, [left |-> left, right |-> right,
                                  runningNum |-> afterExpense]))

\* faulty variant: the balance of a row is not carried into the next row
twoSided_NoCarry(list) ==
    LET z == ZipFrom(incomeList(list), expenseList(list), 1, 0, <<>>)
    IN  [i \in 1..Len(z) |->
            [z[i] EXCEPT !.runningNum =
                z[i].runningNum - (IF i = 1 THEN 0 ELSE z[i - 1].runningNum)]]

\* faulty variant: the zip stops when the shorter side is exhausted
twoSided_Shorter(list) ==
    LET inc == incomeList(list)
        exp == expenseList(list)
        n == Min(Len(inc), Len(exp))
    IN  ZipFrom(SubSeq(inc, 1, n), SubSeq(exp, 1, n), 1, 0, <<>>)

twoSided(list) == ZipFrom(incomeList(list), expenseList(list), 1, 0, <<>>)

InitSided ==
    /\ InitUrls
    /\ AuthSignedIn
    /\ rows \in SidedFetchResults
    /\ InitToggles
    /\ emitted = UiRender(rows, FALSE, FALSE, FALSE, TRUE, FALSE)
    /\ InitFilters
    /\ InitQuery

\* the table drawn in two-sided mode
renderTwoSided ==
    /\ emitted' = [sink |-> "twoSided", body |-> twoSided(UiList(rows))]
    /\ UNCHANGED <<rows, includeNotes, includeArea, includeTagged, includeKind,
                   includeCumulative, filterVars, queryVars, urlVars, authVars>>

NextSided == renderTwoSided

SpecSided == InitSided /\ [][NextSided]_vars

\* the fetched rows of one kind, by index
RowsOfKind(rs, k) == {i \in 1..Len(rs) : rs[i].kind = k}

\* the fetched rows a side of the emitted table shows, by index
SideSrc(body, side) ==
    {body[i][side].src : i \in {j \in 1..Len(body) : body[j][side] # NoEntry}}

SideCount(body, side) == Cardinality({j \in 1..Len(body) : body[j][side] # NoEntry})

(* C21: in two-sided mode the number of emitted rows is the larger of the  *)
(* number of income rows and the number of expense rows; every fetched row *)
(* is shown exactly once, on the side of its kind, no emitted row is empty *)
(* on both sides, and each side runs ascending by date.                    *)
C21_TwoSidedRowCount ==
    emitted.sink = "twoSided" =>
        LET body == emitted.body
            nInc == Cardinality(RowsOfKind(rows, "INCOMING"))
            nExp == Cardinality(RowsOfKind(rows, "OUTGOING"))
        IN  /\ Len(body) = Max(nInc, nExp)
            /\ SideSrc(body, "left") = RowsOfKind(rows, "INCOMING")
            /\ SideSrc(body, "right") = RowsOfKind(rows, "OUTGOING")
            /\ SideCount(body, "left") = nInc
            /\ SideCount(body, "right") = nExp
            /\ \A i \in 1..Len(body) :
                   body[i].left # NoEntry \/ body[i].right # NoEntry
            /\ \A side \in {"left", "right"} : \A i, j \in 1..Len(body) :
                   (i < j /\ body[i][side] # NoEntry /\ body[j][side] # NoEntry)
                       => body[i][side].date <= body[j][side].date

\* an emitted table with sides of different lengths, both non-empty
C21_Witness ==
    /\ emitted.sink = "twoSided"
    /\ Len(emitted.body) = 2
    /\ SideCount(emitted.body, "left") = 2
    /\ SideCount(emitted.body, "right") = 1

\* the amounts one side of the emitted table shows, top to bottom
RECURSIVE SideAmounts(_, _, _, _)
SideAmounts(body, side, field, i) ==
    IF i > Len(body) THEN <<>>
    ELSE IF body[i][side] = NoEntry THEN SideAmounts(body, side, field, i + 1)
         ELSE <<body[i][side][field]>> \o SideAmounts(body, side, field, i + 1)

(* C22: in two-sided mode the balance of emitted row i is the balance of   *)
(* row i-1 (0 before the first row) plus the income at position i, if any, *)
(* minus the expense at position i, if any; for incomes 100, 50 and the    *)
(* single expense 30 the balances are 70 and 120.                          *)
C22_TwoSidedRunning ==
    emitted.sink = "twoSided" =>
        LET body == emitted.body
            In(i) == IF body[i].left = NoEntry THEN 0 ELSE body[i].left.incomingNum
            Out(i) == IF body[i].right = NoEntry THEN 0 ELSE body[i].right.expenseNum
        IN  /\ \A i \in 1..Len(body) :
                   body[i].runningNum =
                       (IF i = 1 THEN 0 ELSE body[i - 1].runningNum) + In(i) - Out(i)
            /\ (/\ SideAmounts(body, "left", "incomingNum", 1) = <<10000, 5000>>
                /\ SideAmounts(body, "right", "expenseNum", 1) = <<3000>>)
                   => [i \in 1..Len(body) |-> body[i].runningNum] = <<7000, 12000>>

\* the example's table has been emitted
C22_Witness ==
    /\ emitted.sink = "twoSided"
    /\ SideAmounts(emitted.body, "left", "incomingNum", 1) = <<10000, 5000>>
    /\ SideAmounts(emitted.body, "right", "expenseNum", 1) = <<3000>>
    /\ emitted.body[2].runningNum = 12000

-----------------------------------------------------------------------------
(* C23: from <= to holds of the filter selection after every sequence of   *)
(* edits of the From and To inputs: no journal read is issued with a       *)
(* range whose start lies after its end.                                   *)
C23_NoInvertedRangeQuery ==
    /\ from <= to
    /\ \A r \in reads : r.snap.from <= r.snap.to

-----------------------------------------------------------------------------
(* SpecClip: the Notes cell of the PDF.  A text is a sequence of glyphs;   *)
(* getTextWidth adds up the glyph widths of the current font.              *)

MaxText == 5
MAX_NOTE_LINES == 3

Ellipsis == "<ellipsis>"              \* U+2026
Glyphs == {"i", " ", "W"}

GlyphWidth(g) ==
    CASE g = "W" -> 3
      [] g = Ellipsis -> 2
      [] OTHER -> 1

\* doc.getTextWidth(s)
RECURSIVE getTextWidth(_)
getTextWidth(s) == IF s = <<>> THEN 0 ELSE GlyphWidth(Head(s)) + getTextWidth(Tail(s))

NoteTexts == UNION {[1..n -> Glyphs] : n \in 0..MaxText}
WrapWidths == 1..4

\* doc.splitTextToSize(text || "", width): lines filled greedily, a line
\* always takes at least one glyph, the empty text gives one empty line
RECURSIVE WrapFrom(_, _, _, _, _)
WrapFrom(text, width, i, cur, acc) ==
    IF i > Len(text) THEN Append(acc, cur)
    ELSE IF cur # <<>> /\ getTextWidth(cur) + GlyphWidth(text[i]) > width
         THEN WrapFrom(text, width, i + 1, <<text[i]>>, Append(acc, cur))
         ELSE WrapFrom(text, width, i + 1, Append(cur, text[i]), acc)

splitTextToSize(text, width) == WrapFrom(text, width, 1, <<>>, <<>>)

\* while (doc.getTextWidth(last + ellipsis) > width && last.length)
\*     last = last.slice(0, -1)                 ReportsPage.tsx:810
RECURSIVE trimLast(_, _, _)
trimLast(last, width, steps) ==
    IF getTextWidth(Append(last, Ellipsis)) > width /\ Len(last) > 0
    THEN trimLast(SubSeq(last, 1, Len(last) - 1), width, steps + 1)
    ELSE [last |-> last, steps |-> steps]

\* faulty variant: the ellipsis is appended to the untrimmed line
clipTextLines_NoTrim(text, width, maxLines) ==
    LET lines == splitTextToSize(text, width)
    IN  IF Len(lines) <= maxLines THEN lines
        ELSE Append(SubSeq(lines, 1, maxLines - 1), Append(lines[maxLines], Ellipsis))

\* clipTextLines                                ReportsPage.tsx:806-812
clipTextLines(text, width, maxLines) ==
    LET lines == splitTextToSize(text, width)
    IN  IF Len(lines) <= maxLines THEN lines
        ELSE Append(SubSeq(lines, 1, maxLines - 1),
                    Append(trimLast(lines[maxLines], width, 0).last, Ellipsis))

\* a fetched row with its notes
NoteRowDomain ==
    [ts : {3}, kind : {"OUTGOING"}, amount : {[ok |-> TRUE, paise |-> 150]},
     area : {NULL}, notes : NoteTexts]

InitClip ==
    /\ InitUrls
    /\ AuthSignedIn
    /\ rows \in [1..1 -> NoteRowDomain]
    /\ InitToggles
    /\ emitted = UiRender(rows, FALSE, FALSE, FALSE, TRUE, FALSE)
    /\ InitFilters
    /\ InitQuery

\* didParseCell on the Notes cell of a body row   ReportsPage.tsx:1412-1417
didParseCell ==
    \E w \in WrapWidths :
        /\ emitted' = [sink |-> "cell", raw |-> rows[1].notes, width |-> w,
                       wrapped |-> splitTextToSize(rows[1].notes, w),
                       trimSteps |->
                           LET lines == splitTextToSize(rows[1].notes, w)
                           IN  IF Len(lines) <= MAX_NOTE_LINES THEN 0
                               ELSE trimLast(lines[MAX_NOTE_LINES], w, 0).steps,
                       text |-> clipTextLines(rows[1].notes, w, MAX_NOTE_LINES)]
        /\ UNCHANGED <<rows, includeNotes, includeArea, includeTagged, includeKind,
                       includeCumulative, filterVars, queryVars, urlVars, authVars>>

NextClip == didParseCell

SpecClip == InitClip /\ [][NextClip]_vars

IsPrefix(a, b) == Len(a) <= Len(b) /\ SubSeq(b, 1, Len(a)) = a

(* C24: clipTextLines returns at most 3 lines; a text that wraps to at     *)
(* most 3 lines is returned as wrapped; otherwise the first 2 lines are    *)
(* kept, the last line is a prefix of the third wrapped line followed by   *)
(* the ellipsis, it fits the width or is the ellipsis alone, and the       *)
(* trimming loop has run no more often than the third line has glyphs.     *)
C24_ClipAtMostThreeLines ==
    emitted.sink = "cell" =>
        LET out == emitted.text
            wrapped == emitted.wrapped
        IN  /\ Len(out) <= MAX_NOTE_LINES
            /\ Len(wrapped) <= MAX_NOTE_LINES => out = wrapped
            /\ Len(wrapped) > MAX_NOTE_LINES =>
                   LET last == out[MAX_NOTE_LINES]
                       kept == SubSeq(last, 1, Len(last) - 1)
                   IN  /\ Len(out) = MAX_NOTE_LINES
                       /\ SubSeq(out, 1, MAX_NOTE_LINES - 1)
                              = SubSeq(wrapped, 1, MAX_NOTE_LINES - 1)
                       /\ Len(last) >= 1 /\ last[Len(last)] = Ellipsis
                       /\ IsPrefix(kept, wrapped[MAX_NOTE_LINES])
                       /\ getTextWidth(last) <= emitted.width \/ kept = <<>>
                       /\ emitted.trimSteps <= Len(wrapped[MAX_NOTE_LINES])
                       /\ emitted.trimSteps = Len(wrapped[MAX_NOTE_LINES]) - Len(kept)

\* a text of more than 3 wrapped lines whose third line lost a glyph and
\* kept one
C24_Witness ==
    /\ emitted.sink = "cell"
    /\ Len(emitted.wrapped) > MAX_NOTE_LINES
    /\ emitted.trimSteps >= 1
    /\ Len(emitted.text[MAX_NOTE_LINES]) >= 2

-----------------------------------------------------------------------------
(* C25: the on-screen totals row shows the net balance (totals.inc minus   *)
(* totals.out) in the Running column when that column is visible, and in   *)
(* the Expense column otherwise, for every toggle combination.             *)
C25_UiTotalsRowBalance ==
    (emitted.sink = "ui" /\ emitted.totalsRow # <<>>) =>
        LET hs == emitted.headers
            tot == totals(rows)
            col == IF IndexOf(hs, "Running") >= 1 THEN IndexOf(hs, "Running")
                   ELSE IndexOf(hs, "Expense")
        IN  emitted.totalsRow[col] = inr(JsSub(tot.inc, tot.out))

-----------------------------------------------------------------------------
(* SpecAreas: the divisions list is read again while the page is open (the *)
(* query refetches on window focus, on reconnect and on a remount), and    *)
(* the store may by then hold other areas.                                 *)

\* what a later read of the divisions can return: the first list, d1
\* without its area, no division at all
DivisionLists ==
    {DivisionList,
     {[id |-> "d1", area |-> NULL], [id |-> "d2", area |-> NULL]},
     {}}

\* a refetch of ["divisions"] answers with another list; the memo
\* effectiveDivisionIds is recomputed, the filter state is kept
DivisionsReloaded ==
    \E l \in DivisionLists :
        /\ divisions.loaded
        /\ l # divisions.list
        /\ changes < MaxChanges
        /\ changes' = changes + 1
        /\ divisions' = Loaded(l)
        /\ LET st == AfterRender(cache, reads, queryKey(CurrentSnapshot),
                                 Snapshot(from, to, kind, divisionIds, areaValues, Loaded(l),
                                          personIds, groupIds, categoryIds))
           IN  cache' = st.cache /\ reads' = st.reads
        /\ UNCHANGED <<filterVars, renderVars, urlVars, authVars>>

NextAreas ==
    \/ ToggleDivision
    \/ ToggleArea
    \/ DivisionsLoaded
    \/ DivisionsReloaded
    \/ ReadSucceeds
    \/ ReadFails
    \/ ReadDropped

SpecAreas == Init /\ [][NextAreas]_vars

(* C26: whenever an area is selected, the journal query is restricted by   *)
(* division: the effective division id set is not empty, and no read of    *)
(* the current selection runs without a division filter.                   *)
C26_AreaSelectionRestricts ==
    areaValues # {} =>
        /\ CurrentSnapshot.effectiveDivisionIds # {}
        /\ \A r \in reads :
               (r.live /\ r.key = queryKey(CurrentSnapshot))
                   => r.snap.effectiveDivisionIds # {}

-----------------------------------------------------------------------------
(* SpecPreview: handlePreview step by step.  A click starts buildDoc; the  *)
(* handler is the closure of the render it was created in, so the          *)
(* previewUrl it revokes after the await is the one that render saw.       *)
(* setPreviewUrl outside an event handler is queued, and the render that   *)
(* applies it runs the cleanup of the [previewUrl] effect.                 *)

\* the sequence without its i-th element
RemoveAt(s, i) == SubSeq(s, 1, i - 1) \o SubSeq(s, i + 1, Len(s))

\* click on Preview: const doc = await buildDoc()   ReportsPage.tsx:1531-1532
previewClicked ==
    /\ mounted
    /\ urlCount + Len(previewRuns.running) < MaxUrls
    /\ previewRuns' = [previewRuns EXCEPT !.running = Append(@, previewUrl)]
    /\ UNCHANGED <<renderVars, filterVars, queryVars, objectUrls, urlCount,
                   previewUrl, mounted,
                   authVars>>

\* buildDoc has resolved: revoke the captured URL, create the new one,
\* setPreviewUrl(url); on an unmounted component the update is dropped
\*                                              ReportsPage.tsx:1533-1536
previewBuilt ==
    \E i \in 1..Len(previewRuns.running) :
        LET seen == previewRuns.running[i]
            url == urlCount + 1
        IN  /\ urlCount' = url
            /\ objectUrls' = (objectUrls \ {seen}) \cup {url}
            /\ previewRuns' = [running |-> RemoveAt(previewRuns.running, i),
                               queued |-> IF mounted THEN url ELSE previewRuns.queued]
            /\ emitted' = PdfDocument(rows, includeKind, includeArea, includeTagged,
                                      includeCumulative, includeNotes, "asset")
            /\ UNCHANGED <<rows, includeNotes, includeArea, includeTagged, includeKind,
                           includeCumulative, filterVars, queryVars, previewUrl, mounted,
                   authVars>>

\* the render that applies the queued state: the effect's cleanup revokes
\* the previewUrl of the previous render        ReportsPage.tsx:1546
previewCommitted ==
    /\ mounted
    /\ previewRuns.queued # 0
    /\ objectUrls' = objectUrls \ {previewUrl}
    /\ previewUrl' = previewRuns.queued
    /\ previewRuns' = [previewRuns EXCEPT !.queued = 0]
    /\ UNCHANGED <<renderVars, filterVars, queryVars, urlCount, mounted,
                   authVars>>

\* unmount: the cleanup revokes the previewUrl of the last render; a queued
\* update is never rendered
unmountPreview ==
    /\ mounted
    /\ mounted' = FALSE
    /\ objectUrls' = objectUrls \ {previewUrl}
    /\ previewRuns' = [previewRuns EXCEPT !.queued = 0]
    /\ UNCHANGED <<renderVars, filterVars, queryVars, urlCount, previewUrl,
                   authVars>>

NextPreview ==
    \/ previewClicked
    \/ previewBuilt
    \/ previewCommitted
    \/ unmountPreview
    \/ SetIncludeArea
    \/ SetIncludeCumulative

SpecPreview == InitUrlsSpec /\ [][NextPreview]_vars

(* C27: under every interleaving of overlapping previews and unmount, a    *)
(* created preview URL that is not the one shown (nor the one about to be  *)
(* shown) has been revoked, and after unmount, once no preview is being    *)
(* built, every created URL has been revoked.                              *)
C27_PreviewUrlsRevoked ==
    /\ mounted => objectUrls \subseteq {previewUrl, previewRuns.queued}
    /\ (~mounted /\ previewRuns.running = <<>>) => objectUrls = {}

-----------------------------------------------------------------------------
(* SpecJournal: the tag of a journal row as JournalPage writes it.  rows   *)
(* is the journal; a row carries person_id and group_id.                   *)

MaxJournal == 2

WhoTypes == {"none", "person", "group"}

\* what the form can hold at submit: the radio, the two selects (always
\* rendered, "" is stored as null) and the two new-name inputs
FormTagValues ==
    [whoType : WhoTypes, person_id : {NULL, "p1"}, group_id : {NULL, "g1"},
     new_person : {"", " ", "Asha"}, new_group : {"", "Team"}]

\* String.prototype.trim() on the inputs above
Trim(str) == IF str = " " THEN "" ELSE str

\* FormSchema .refine(..)                        JournalPage.tsx:34-38
refine(v) ==
    IF v.whoType = "person" THEN v.person_id # NULL \/ Trim(v.new_person) # ""
    ELSE IF v.whoType = "group" THEN v.group_id # NULL \/ Trim(v.new_group) # ""
    ELSE TRUE

\* addEntry mutationFn: person_id and group_id of the payload
\*                                               JournalPage.tsx:114-143
addEntryTags(v) ==
    [person_id |-> IF v.whoType = "person" /\ v.person_id = NULL /\ Trim(v.new_person) # ""
                   THEN "pNew" ELSE v.person_id,
     group_id |-> IF v.whoType = "group" /\ v.group_id = NULL /\ Trim(v.new_group) # ""
                  THEN "gNew" ELSE v.group_id]

\* updateEntry mutationFn                        unnamed/part_003:215-229
updateEntryTags(v) == [person_id |-> v.person_id, group_id |-> v.group_id]

TaggedRow(ts, tags) ==
    [ts |-> ts, kind |-> "OUTGOING", amount |-> [ok |-> TRUE, paise |-> 150],
     area |-> NULL, person_id |-> tags.person_id, group_id |-> tags.group_id]

\* form.handleSubmit(onSubmit) without editingId: addEntry.mutate(v)
submitAddEntry ==
    \E v \in FormTagValues : \E ts \in Dates :
        /\ refine(v)
        /\ Len(rows) < MaxJournal
        /\ rows' = Inserted(rows, TaggedRow(ts, addEntryTags(v)))
        /\ emitted' = [sink |-> "journal", op |-> "add", values |-> v,
                       payload |-> addEntryTags(v)]
        /\ UNCHANGED <<includeNotes, includeArea, includeTagged, includeKind,
                       includeCumulative, filterVars, queryVars, urlVars, authVars>>

\* editRow(r), edits in the form, then onSubmit with editingId:
\* updateEntry.mutate({...v, id})                unnamed/part_003:262-283
submitUpdateEntry ==
    \E i \in 1..Len(rows) : \E v \in FormTagValues :
        /\ refine(v)
        /\ rows' = [rows EXCEPT ![i] = TaggedRow(rows[i].ts, updateEntryTags(v))]
        /\ emitted' = [sink |-> "journal", op |-> "update", values |-> v,
                       payload |-> updateEntryTags(v)]
        /\ UNCHANGED <<includeNotes, includeArea, includeTagged, includeKind,
                       includeCumulative, filterVars, queryVars, urlVars, authVars>>

NextJournal ==
    \/ submitAddEntry
    \/ submitUpdateEntry

SpecJournal == InitPost /\ [][NextJournal]_vars

(* C28: every journal row written by addEntry or updateEntry has at most   *)
(* one of person_id and group_id set, and the tag stored follows the tag   *)
(* type chosen in the form: none stores neither, person stores no group,   *)
(* group stores no person.                                                 *)
C28_TagFollowsWhoType ==
    /\ \A i \in 1..Len(rows) : rows[i].person_id = NULL \/ rows[i].group_id = NULL
    /\ emitted.sink = "journal" =>
           /\ emitted.values.whoType = "none" =>
                  emitted.payload.person_id = NULL /\ emitted.payload.group_id = NULL
           /\ emitted.values.whoType = "person" => emitted.payload.group_id = NULL
           /\ emitted.values.whoType = "group" => emitted.payload.person_id = NULL

-----------------------------------------------------------------------------
(* SpecTagged: the Tagged To cell.  The join hands person and group over   *)
(* as null, as one object or as an array of objects (MaybeObj); a name is  *)
(* a string, possibly empty, or missing (NULL).                            *)

MaxTaggedRows == 1

PersonNames == {NULL, "", "Asha"}
GroupNames == {NULL, "", "Team"}

MaybeObj(names) ==
    {[shape |-> "null"]}
        \cup {[shape |-> "obj", name |-> n] : n \in names}
        \cup {[shape |-> "array", items |-> a] : a \in UNION {[1..k -> names] : k \in 0..2}}

\* x ?? fallback
OrElse(x, fallback) == IF x = NULL THEN fallback ELSE x

\* !v ? fallback : Array.isArray(v) ? v[0]?.full_name ?? fallback
\*                                  : v.full_name ?? fallback   ReportsPage.tsx:754-755
firstPerson(v, fallback) ==
    IF v.shape = "null" THEN fallback
    ELSE IF v.shape = "array"
         THEN (IF Len(v.items) = 0 THEN fallback ELSE OrElse(v.items[1], fallback))
         ELSE OrElse(v.name, fallback)

\* the same over .name                           ReportsPage.tsx:752-753
firstName(v, fallback) ==
    IF v.shape = "null" THEN fallback
    ELSE IF v.shape = "array"
         THEN (IF Len(v.items) = 0 THEN fallback ELSE OrElse(v.items[1], fallback))
         ELSE OrElse(v.name, fallback)

\* a || b on strings: the empty string is falsy
Or(a, b) == IF a = "" THEN b ELSE a

\* faulty variant: the group is looked at first
uiTagged_GroupFirst(r) == Or(Or(firstName(r.group, ""), firstPerson(r.person, "")), EmDash)

\* uiRows: tagged                                ReportsPage.tsx:1585
uiTagged(r) == Or(Or(firstPerson(r.person, ""), firstName(r.group, "")), EmDash)

\* buildDoc bodyRaw: tagged                      ReportsPage.tsx:1263
pdfTagged(r) == Or(Or(firstPerson(r.person, ""), firstName(r.group, "")), EmDash)

TaggedRowDomain ==
    [ts : {3}, kind : {"OUTGOING"}, amount : {[ok |-> TRUE, paise |-> 150]},
     area : {NULL}, person : MaybeObj(PersonNames), group : MaybeObj(GroupNames)]

InitTagged ==
    /\ InitUrls
    /\ AuthSignedIn
    /\ rows \in UNION {[1..n -> TaggedRowDomain] : n \in 1..MaxTaggedRows}
    /\ InitToggles
    /\ emitted = UiRender(rows, FALSE, FALSE, FALSE, TRUE, FALSE)
    /\ InitFilters
    /\ InitQuery

\* the Tagged To column of the table on screen   ReportsPage.tsx:1731
renderTagged ==
    /\ emitted' = [sink |-> "uiTagged",
                   tagged |-> [i \in 1..Len(rows) |-> uiTagged(rows[i])]]
    /\ UNCHANGED <<rows, includeNotes, includeArea, includeTagged, includeKind,
                   includeCumulative, filterVars, queryVars, urlVars, authVars>>

\* the Tagged To column of the PDF body          ReportsPage.tsx:1368
buildDocTagged ==
    /\ emitted' = [sink |-> "pdfTagged",
                   tagged |-> [i \in 1..Len(rows) |-> pdfTagged(rows[i])]]
    /\ UNCHANGED <<rows, includeNotes, includeArea, includeTagged, includeKind,
                   includeCumulative, filterVars, queryVars, urlVars, authVars>>

NextTagged ==
    \/ renderTagged
    \/ buildDocTagged

SpecTagged == InitTagged /\ [][NextTagged]_vars

\* the name a join value resolves to: that of the object, or of the first
\* element of the array; "" when there is none
ResolvedName(v) ==
    CASE v.shape = "obj" /\ v.name # NULL -> v.name
      [] v.shape = "array" /\ Len(v.items) >= 1 /\ v.items[1] # NULL -> v.items[1]
      [] OTHER -> ""

(* C29: a row's Tagged To cell is the person's full name when a non-empty  *)
(* person name is resolved, otherwise the group's name when a non-empty    *)
(* one is resolved, otherwise the em dash; with both a person and a group  *)
(* the person wins; the table on screen and the PDF hold the same value.   *)
C29_TaggedPersonThenGroup ==
    emitted.sink \in {"uiTagged", "pdfTagged"} =>
        \A i \in 1..Len(rows) :
            LET person == ResolvedName(rows[i].person)
                group == ResolvedName(rows[i].group)
            IN  /\ person # "" => emitted.tagged[i] = person
                /\ (person = "" /\ group # "") => emitted.tagged[i] = group
                /\ (person = "" /\ group = "") => emitted.tagged[i] = EmDash
                /\ emitted.tagged[i] = uiTagged(rows[i])
                /\ emitted.tagged[i] = pdfTagged(rows[i])

\* a row with both a person and a group, drawn
C29_Witness ==
    /\ emitted.sink = "pdfTagged"
    /\ ResolvedName(rows[1].person) = "Asha"
    /\ ResolvedName(rows[1].group) = "Team"
    /\ emitted.tagged[1] = "Asha"

-----------------------------------------------------------------------------
(* SpecAuth: AuthProvider and the route guard.  auth holds the provider's  *)
(* React state (user, loading), the position of its mount effect (pc),     *)
(* the session the auth store holds (stored), the auth-change events the   *)
(* store has emitted to the subscriber and the provider has not handled    *)
(* yet (events), and the current route (path).  A session is its user.     *)

MaxAuthEvents == 2

AuthUsers == {NULL, "u1"}

\* <Route path=..> with <Protected>             App.tsx:184-247
ProtectedPaths ==
    {"/bulk-upload", "/", "/journal", "/divisions", "/categories", "/reports",
     "/stats", "/export"}

Paths == ProtectedPaths \cup {"/login", "/elsewhere"}

\* the page element of a protected route
PageOf(path) ==
    CASE path = "/bulk-upload" -> "BulkUploadPage"
      [] path = "/" -> "Home"
      [] path = "/journal" -> "JournalPage"
      [] path = "/divisions" -> "DivisionsPage"
      [] path = "/categories" -> "CategoriesPage"
      [] path = "/reports" -> "ReportsPage"
      [] path = "/stats" -> "StatsPage"
      [] path = "/export" -> "ExportPage"

Pages == {PageOf(p) : p \in ProtectedPaths}

\* faulty variant: the guard only waits for the load
Protected_NoUserCheck(user, loading, children) ==
    IF loading THEN "Checking session" ELSE children

\* Protected                                    App.tsx:16-27
Protected(user, loading, children) ==
    IF loading THEN "Checking session"
    ELSE IF user = NULL THEN "Navigate /login"
    ELSE children

\* <Routes>: what the current route renders     App.tsx:181-254
RouteElement(path, user, loading) ==
    IF path = "/login" THEN "Login"
    ELSE IF path \in ProtectedPaths THEN Protected(user, loading, PageOf(path))
    ELSE IF user # NULL THEN "Navigate /" ELSE "Navigate /login"

Rendered == RouteElement(auth.path, auth.user, auth.loading)

\* first render: useState(null), useState(true); the URL may carry an auth
\* code, the store may hold a session from an earlier visit
InitAuth ==
    \E code \in BOOLEAN : \E s \in AuthUsers : \E p \in Paths :
        auth = [user |-> NULL, loading |-> TRUE,
                pc |-> IF code THEN "exchange" ELSE "getSession",
                stored |-> s, events |-> <<>>, path |-> p]

InitAuthSpec ==
    /\ InitAuth
    /\ InitUrls
    /\ rows = <<>>
    /\ InitToggles
    /\ emitted = UiRender(<<>>, FALSE, FALSE, FALSE, TRUE, FALSE)
    /\ InitFilters
    /\ InitQuery

AuthStep == UNCHANGED <<filterVars, queryVars, renderVars, urlVars>>

\* await supabase.auth.exchangeCodeForSession(..): the store takes the
\* session, or the call throws and is logged      auth.tsx:112-124
exchangeCodeForSession ==
    /\ auth.pc = "exchange"
    /\ \E ok \in BOOLEAN :
           auth' = [auth EXCEPT !.pc = "getSession",
                                !.stored = IF ok THEN "u1" ELSE @]
    /\ AuthStep

\* getSession() resolves: setSession, setUser, subscribe, setLoading(false),
\* all in one continuation; a store that announces the initial session to
\* a new subscriber queues that event             auth.tsx:127-138
sessionLoaded ==
    /\ auth.pc = "getSession"
    /\ \E announce \in BOOLEAN :
           auth' = [auth EXCEPT !.pc = "subscribed", !.user = auth.stored,
                                !.loading = FALSE,
                                !.events = IF announce THEN <<auth.stored>> ELSE <<>>]
    /\ AuthStep

\* getSession() rejects: the effect's promise rejects, nothing is set
sessionLoadFails ==
    /\ auth.pc = "getSession"
    /\ auth' = [auth EXCEPT !.pc = "failed"]
    /\ AuthStep

\* the store's session changes (sign-in on the login page, signOut, expiry,
\* another tab); a subscriber gets the event      auth.tsx:148-197
authStoreChanges ==
    \E s \in AuthUsers :
        /\ s # auth.stored
        /\ Len(auth.events) < MaxAuthEvents
        /\ auth' = [auth EXCEPT !.stored = s,
                                !.events = IF auth.pc = "subscribed"
                                           THEN Append(@, s) ELSE @]
        /\ AuthStep

\* onAuthStateChange callback: setSession(sess); setUser(sess?.user ?? null)
\*                                                auth.tsx:133-136
onAuthStateChange ==
    /\ auth.pc = "subscribed"
    /\ auth.events # <<>>
    /\ auth' = [auth EXCEPT !.user = Head(auth.events), !.events = Tail(@)]
    /\ AuthStep

\* the user follows a link or types a URL
navigate ==
    \E p \in Paths :
        /\ p # auth.path
        /\ auth' = [auth EXCEPT !.path = p]
        /\ AuthStep

\* <Navigate to=.. replace />
redirect ==
    /\ Rendered \in {"Navigate /", "Navigate /login"}
    /\ auth' = [auth EXCEPT !.path = IF Rendered = "Navigate /" THEN "/" ELSE "/login"]
    /\ AuthStep

NextAuth ==
    \/ exchangeCodeForSession
    \/ sessionLoaded
    \/ sessionLoadFails
    \/ authStoreChanges
    \/ onAuthStateChange
    \/ navigate
    \/ redirect

SpecAuth == InitAuthSpec /\ [][NextAuth]_vars

(* C30: page content is rendered only with loading = false and a user; on  *)
(* every protected route a pending load renders the "Checking session"     *)
(* placeholder and a loaded null user renders the redirect to /login.      *)
C30_ProtectedNeedsUser ==
    /\ Rendered \in Pages => (~auth.loading /\ auth.user # NULL)
    /\ (auth.path \in ProtectedPaths /\ auth.loading) => Rendered = "Checking session"
    /\ (auth.path \in ProtectedPaths /\ ~auth.loading /\ auth.user = NULL)
           => Rendered = "Navigate /login"

\* a sign-out has been handled while a protected route is current
C30_Witness ==
    /\ auth.pc = "subscribed"
    /\ auth.path = "/reports"
    /\ auth.user = NULL
    /\ auth.stored = NULL
    /\ auth.events = <<>>
    /\ Rendered = "Navigate /login"

====
